---- MODULE Spec2Model ----
(***************************************************************************)
(* Model of the chksum tool (src/src/chksum.py): the FileRenamer lock      *)
(* state machine over file names, the four commands, the process-pool      *)
(* calculator and Main.run; of CompositeMetadata and FileMetadataFactory    *)
(* with the lazily derived media metadata (src/src/metadata); and of the   *)
(* video adapters (src/src/adapter/video_adapter.py).                      *)
(*                                                                         *)
(* A file name is a sequence of one-character strings.  A directory is a   *)
(* function from the names of the files it holds to a content identifier.  *)
(* A Checksum is a record [path, value].                                   *)
(***************************************************************************)
EXTENDS Integers, Sequences, FiniteSets, TLC

VARIABLES
    fs,          \* the directory: file name -> content id
    renames,     \* every successful Path.rename so far, as <<old, new>>
    cur,         \* FileRenamer driven directly: the Checksum the caller holds
    hist,        \* FileRenamer driven directly: the calls made, [op, arg, ret]
    entry,       \* "Renamer" | "Main" | "Command": what drives the program
    request,     \* CommandRequest: [files, write, delete]
    unreadable,  \* names whose stat()/open() raises in compute_digest
    commands,    \* the Command objects to run: sequence of [kind, files]
    current,     \* index in commands of the command whose run() is active
    futures,     \* the futures of the active compute_checksums
    presenter,   \* the calls received by the Presenter: [method, checksum]
    log,         \* per future taken from as_completed: what was processed
    runs,        \* the CommandResponse.success of the finished commands
    exitCode,    \* the value returned by Main.run, NoExit before that
    pc,          \* "renamer" | "create" | "submit" | "iterate" | "finished"
    aggregate,   \* CompositeMetadata._aggregate: the dict, in key order
    constructed, \* the arguments CompositeMetadata was constructed with
    added,       \* the calls of CompositeMetadata.add so far
    subject,     \* the file given to create_metadata: what the adapters say
    created,     \* create_metadata: "none" | "returned" | "raised"
    cache,       \* per metadata class: the cached_property holds a value
    calls,       \* per metadata class: calls made to its adapter
    accesses,    \* the attribute reads made on members of the bundle
    clip,        \* the video handed to DefaultVideoAdapter.frames
    vpc,         \* frames(): "start" | "primary" | "fallback" | "returned" | "raised"
    progress,    \* OpencvVideoAdapter.frames: progress
    missed_frames, \* OpencvVideoAdapter.frames: missed_frames
    captured,    \* OpencvVideoAdapter.frames: frames, as frame numbers
    clock,       \* seconds on time.monotonic() since start was taken
    reads,       \* one record per pass of the loop over spec.frame_numbers
    fallback,    \* FfmpegVideoAdapter.frames: "idle" | "returned" | "empty" | "raised"
    probes,      \* the calls of DefaultVideoAdapter.metrics made by a caller
    measured,    \* the Metrics frame_spec starts from
    derived,     \* the FrameSpec it returns, NoSpec before
    decimal_number, \* compute_digest: the first quarter of a digest, 8 bytes
    encoded,     \* compute_digest: the checksum made of it, <<>> before
    digest,      \* FileMetadataFactory._digest: the bytes it was fed so far
    scanned,     \* the FileMetadata made by one factory: [bytes, checksum]
    handed,      \* the FrameSpec handed to both video backends
    opencv_frames, \* what OpencvVideoAdapter.frames returned for it
    ffmpeg_frames, \* what FfmpegVideoAdapter.frames returned for it
    notes,       \* the *.md files under the root: path -> ids found in it
    days,        \* Day.create: [outcome, list], the Day objects it returns
    book,        \* the logbook Logbook.parse reads, as it was before the call
    summaries,   \* the *.md files other than day files: path -> content
    parsed       \* Logbook.parse: [outcome, errors, saved]

vars == <<fs, renames, cur, hist, entry, request, unreadable, commands,
          current, futures, presenter, log, runs, exitCode, pc,
          aggregate, constructed, added,
          subject, created, cache, calls, accesses,
          clip, vpc, progress, missed_frames, captured, clock, reads,
          fallback, probes, measured, derived, decimal_number, encoded,
          digest, scanned, handed, opencv_frames, ffmpeg_frames,
          notes, days, book, summaries, parsed>>

renamerVars == <<fs, renames, cur, hist>>
mainVars == <<entry, request, unreadable, commands, current, futures,
              presenter, log, runs, exitCode, pc>>
metadataVars == <<aggregate, constructed, added>>
factoryVars == <<subject, created, cache, calls, accesses>>
videoVars == <<clip, vpc, progress, missed_frames, captured, clock, reads,
               fallback, probes>>
frameSpecVars == <<measured, derived>>
encodingVars == <<decimal_number, encoded>>
\* what the parts added last work on
scanVars == <<digest, scanned>>
backendVars == <<handed, opencv_frames, ffmpeg_frames>>
dayVars == <<notes, days>>
logbookVars == <<book, summaries, parsed>>
restVars == <<encodingVars, scanVars, backendVars, dayVars, logbookVars>>
\* everything outside the chksum tool
otherVars == <<metadataVars, factoryVars, videoVars, frameSpecVars, restVars>>

-----------------------------------------------------------------------------
(* Bounds *)

\* most tokens concatenated into a file name handed to the FileRenamer
MaxParts == 3
\* most FileRenamer calls made in a row on one file
MaxOps == 2
\* most files in a CommandRequest drawn freely from the name pool
MaxFiles == 2
\* most arguments of the CompositeMetadata constructor
MaxArgs == 2
\* most calls of CompositeMetadata.add on one object
MaxAdds == 2
\* most attribute reads on the members of one bundle
MaxAccesses == 3
\* most frames of a clip whose frame specification is derived
MaxClipFrames == 12
\* most calls of DefaultVideoAdapter.metrics made by a caller
MaxProbes == 1
\* most files one FileMetadataFactory makes a FileMetadata for
MaxScans == 3
\* most dates a logbook has a day file for
MaxDays == 3

-----------------------------------------------------------------------------
(* Strings *)

RECURSIVE Cat(_)
Cat(ss) == IF ss = <<>> THEN <<>> ELSE Head(ss) \o Cat(Tail(ss))

\* QuarterSha256Base36Digester.length
Length == 13

\* the digits of base_36; valid_chars "0-9a-z" is their set
Digits == <<"0", "1", "2", "3", "4", "5", "6", "7", "8", "9",
            "a", "b", "c", "d", "e", "f", "g", "h", "i", "j", "k", "l", "m",
            "n", "o", "p", "q", "r", "s", "t", "u", "v", "w", "x", "y", "z">>

ValidChars == {Digits[i] : i \in 1..Len(Digits)}

Uppers == <<"A", "B", "C", "D", "E", "F", "G", "H", "I", "J", "K", "L", "M",
            "N", "O", "P", "Q", "R", "S", "T", "U", "V", "W", "X", "Y", "Z">>

\* str.lower() on one character
LowerChar(ch) ==
    IF \E i \in 1..Len(Uppers) : Uppers[i] = ch
    THEN Digits[10 + (CHOOSE i \in 1..Len(Uppers) : Uppers[i] = ch)]
    ELSE ch

Lower(s) == [i \in 1..Len(s) |-> LowerChar(s[i])]

\* An unsigned integer of 64 bits is the sequence of its 8 bytes, most
\* significant first, as int.from_bytes(..., byteorder="big") reads them.
Bytes == 0..255

IsZero(num) == \A i \in 1..Len(num) : num[i] = 0

\* num // 36 and num % 36 by long division, carry being the remainder of the
\* bytes already divided
RECURSIVE DivMod36(_, _)
DivMod36(num, carry) ==
    IF num = <<>> THEN [quot |-> <<>>, rem |-> carry]
    ELSE LET acc == carry * 256 + Head(num)
             rest == DivMod36(Tail(num), acc % 36)
         IN [quot |-> <<acc \div 36>> \o rest.quot, rem |-> rest.rem]

\* base_36(number), number >= 0: least significant digit first, then reversed
RECURSIVE Base36Digits(_)
Base36Digits(num) ==
    IF IsZero(num) THEN <<>>
    ELSE LET d == DivMod36(num, 0)
         IN Base36Digits(d.quot) \o <<Digits[d.rem + 1]>>

base_36(number) ==
    IF Base36Digits(number) = <<>> THEN <<"0">> ELSE Base36Digits(number)

\* a zfill that fills nothing
zfill_fills_nothing(s, width) == s

\* str.zfill(width) on a string without sign
zfill(s, width) ==
    IF Len(s) >= width THEN s
    ELSE [i \in 1..(width - Len(s)) |-> "0"] \o s

-----------------------------------------------------------------------------
(* pathlib: Path.stem and Path.suffix of the final component *)

\* str.rfind('.'), 1-based; 0 when there is no dot
RFindDot(name) ==
    IF \E i \in 1..Len(name) : name[i] = "."
    THEN CHOOSE i \in 1..Len(name) :
            name[i] = "." /\ \A j \in (i + 1)..Len(name) : name[j] # "."
    ELSE 0

HasSuffix(name) == 1 < RFindDot(name) /\ RFindDot(name) < Len(name)

Suffix(name) ==
    IF HasSuffix(name) THEN SubSeq(name, RFindDot(name), Len(name)) ELSE <<>>

Stem(name) ==
    IF HasSuffix(name) THEN SubSeq(name, 1, RFindDot(name) - 1) ELSE name

-----------------------------------------------------------------------------
(* FileRenamer *)

\* a character the regular expression's `.` matches (no re.DOTALL)
RegexDot(ch) == ch # "\n"

\* [0-9a-z] under re.IGNORECASE
RegexValidChar(ch) == LowerChar(ch) \in ValidChars

\* the pattern with a suffix group that need not start with a dot
MatchesWithPrefixAnySuffix(name, p) ==
    /\ p + 1 + Length <= Len(name)
    /\ \A i \in 1..p : RegexDot(name[i])
    /\ name[p + 1] = "."
    /\ \A i \in (p + 2)..(p + 1 + Length) : RegexValidChar(name[i])
    /\ \A i \in (p + 2 + Length)..Len(name) : RegexDot(name[i])

\* The pattern matches with a prefix of p characters: a dot, Length valid
\* characters, then the end of the name or a dot and any `.` characters.
MatchesWithPrefix(name, p) ==
    /\ p + 1 + Length <= Len(name)
    /\ \A i \in 1..p : RegexDot(name[i])
    /\ name[p + 1] = "."
    /\ \A i \in (p + 2)..(p + 1 + Length) : RegexValidChar(name[i])
    /\ \/ p + 1 + Length = Len(name)
       \/ /\ name[p + 2 + Length] = "."
          /\ \A i \in (p + 3 + Length)..Len(name) : RegexDot(name[i])

\* the prefix group is lazy (.*?): the shortest prefix that matches wins
MatchPrefixLen(name) ==
    CHOOSE p \in 0..Len(name) :
        /\ MatchesWithPrefix(name, p)
        /\ \A q \in 0..(p - 1) : ~MatchesWithPrefix(name, q)

has_checksum(name) == \E p \in 0..Len(name) : MatchesWithPrefix(name, p)

\* the groups of checksum_pattern.fullmatch(name), for a name that matches;
\* a suffix group that did not take part is the empty string (`or ''`)
checksum_pattern(name) ==
    LET p == MatchPrefixLen(name) IN
    [prefix   |-> SubSeq(name, 1, p),
     checksum |-> SubSeq(name, p + 2, p + 1 + Length),
     suffix   |-> SubSeq(name, p + 2 + Length, Len(name))]

Checksum(path, value) == [path |-> path, value |-> value]

\* the result of a FileRenamer call: the value returned (NoValue when it
\* raised), the directory and the rename log after it
NoValue == [path |-> <<>>, value |-> <<"!">>]

Outcome(ret, raised, dir, rlog) ==
    [ret |-> ret, raised |-> raised, fs |-> dir, renames |-> rlog]

\* FileRenamer.checksum that returns for every name
checksum_without_raise(name) ==
    IF has_checksum(name)
    THEN [ret |-> Checksum(name, Lower(checksum_pattern(name).checksum)),
          raised |-> FALSE]
    ELSE [ret |-> Checksum(name, <<>>), raised |-> FALSE]

\* FileRenamer.checksum that returns the segment as it is written
checksum_keeps_case(name) ==
    IF has_checksum(name)
    THEN [ret |-> Checksum(name, checksum_pattern(name).checksum),
          raised |-> FALSE]
    ELSE [ret |-> NoValue, raised |-> TRUE]

\* FileRenamer.checksum
checksum(name) ==
    IF has_checksum(name)
    THEN [ret |-> Checksum(name, Lower(checksum_pattern(name).checksum)),
          raised |-> FALSE]
    ELSE [ret |-> NoValue, raised |-> TRUE]

Dot == <<".">>

\* the final component of a path is never ".", ".." or empty: joined to the
\* parent these name a directory
IsFileName(name) == name # <<>> /\ name # Dot /\ name # Dot \o Dot

\* Path.rename (os.rename, POSIX): fails when the source is missing or the
\* target is a directory, replaces an existing target
Rename(dir, rlog, old, new) ==
    IF old \notin DOMAIN dir \/ ~IsFileName(new)
    THEN [raised |-> TRUE, fs |-> dir, renames |-> rlog]
    ELSE [raised |-> FALSE,
          fs |-> [n \in (DOMAIN dir \ {old}) \cup {new} |->
                    IF n = new THEN dir[old] ELSE dir[n]],
          renames |-> Append(rlog, <<old, new>>)]

\* FileRenamer.write_checksum
write_checksum(dir, rlog, c) ==
    IF ~has_checksum(c.path)
    THEN LET new_path == Stem(c.path) \o <<".">> \o c.value \o Suffix(c.path)
             r == Rename(dir, rlog, c.path, new_path)
         IN IF r.raised
            THEN Outcome(NoValue, TRUE, dir, rlog)
            ELSE Outcome(Checksum(new_path, c.value), FALSE, r.fs, r.renames)
    ELSE Outcome(c, FALSE, dir, rlog)

\* FileRenamer.delete_checksum that drops the extension of an unlocked name
delete_checksum_drops_extension(dir, rlog, c) ==
    IF has_checksum(c.path)
    THEN LET match == checksum_pattern(c.path)
             new_file_name == match.prefix \o match.suffix
             r == Rename(dir, rlog, c.path, new_file_name)
         IN IF new_file_name # <<>>
            THEN IF r.raised
                 THEN Outcome(NoValue, TRUE, dir, rlog)
                 ELSE Outcome(Checksum(new_file_name, c.value), FALSE,
                              r.fs, r.renames)
            ELSE Outcome(c, FALSE, dir, rlog)
    ELSE LET r == Rename(dir, rlog, c.path, Stem(c.path))
         IN IF r.raised
            THEN Outcome(NoValue, TRUE, dir, rlog)
            ELSE Outcome(Checksum(Stem(c.path), c.value), FALSE,
                         r.fs, r.renames)

\* FileRenamer.delete_checksum
delete_checksum(dir, rlog, c) ==
    IF has_checksum(c.path)
    THEN LET match == checksum_pattern(c.path)
             new_file_name == match.prefix \o match.suffix
             r == Rename(dir, rlog, c.path, new_file_name)
         IN IF new_file_name # <<>>
            THEN IF r.raised
                 THEN Outcome(NoValue, TRUE, dir, rlog)
                 ELSE Outcome(Checksum(new_file_name, c.value), FALSE,
                              r.fs, r.renames)
            ELSE Outcome(c, FALSE, dir, rlog)
    ELSE Outcome(c, FALSE, dir, rlog)

-----------------------------------------------------------------------------
(* Digester *)

\* The first quarter of the SHA-256 digest of each content, as a number;
\* the hash function is abstracted by this table.
HashQuarter == <<(* sha256 of no byte *)
                 <<227, 176, 196, 66, 152, 252, 28, 20>>,
                 (* sha256 of the two bytes "ab" *)
                 <<251, 142, 32, 252, 46, 76, 63, 36>>>>
Contents == 1..Len(HashQuarter)

\* the checksum of each content: base_36 of the number, left-zero filled
Digests == [k \in Contents |-> zfill(base_36(HashQuarter[k]), Length)]

\* QuarterSha256Base36Digester.compute_digest on a readable file
DigestValue(content) == Digests[content]

\* file.stat().st_size of each content: content 1 is the empty file
Size == <<0, 2>>

\* what a fresh hashlib.sha256() holds: the content that is no input
EmptyInput == CHOOSE k \in Contents : Size[k] = 0

\* compute_digest that maps every file: mmap raises on an empty file
compute_digest_maps_empty(dir, bad, file) ==
    IF file \in DOMAIN dir /\ file \notin bad /\ Size[dir[file]] > 0
    THEN [ret |-> Checksum(file, DigestValue(dir[file])), raised |-> FALSE]
    ELSE [ret |-> NoValue, raised |-> TRUE]

\* QuarterSha256Base36Digester.compute_digest: a fresh hash object, fed the
\* mapped file when its size is not 0; stat and open raise on a file that
\* is missing or cannot be read
compute_digest(dir, bad, file) ==
    IF file \in DOMAIN dir /\ file \notin bad
    THEN LET fed == IF Size[dir[file]] > 0 THEN dir[file] ELSE EmptyInput
         IN [ret |-> Checksum(file, DigestValue(fed)), raised |-> FALSE]
    ELSE [ret |-> NoValue, raised |-> TRUE]

-----------------------------------------------------------------------------
(* File names *)

\* twelve valid characters: one more valid character makes a checksum shape
W12 == <<"b", "b", "b", "b", "b", "b", "b", "b", "b", "b", "b", "b">>
\* a checksum-shaped word with upper-case letters: the digest of the empty
\* file, its letters in upper case
C13 == <<"3", "G", "N", "G", "7", "K", "H", "E", "U", "3", "3", "T", "G">>
\* a checksum-shaped word in lower case: the digest of content 2
D13 == DigestValue(2)

\* an extension
Ext == <<".", "t">>

\* the pieces file names are made of: single characters (a dot, a valid
\* character, an invalid one, a line break), a word one short of a
\* checksum, two different checksum-shaped segments with their dot, and an
\* extension
Tokens ==
    {Dot, <<"a">>, <<"-">>, <<"\n">>, W12, Dot \o C13, Dot \o D13, Ext}

TokenLists == UNION {[1..n -> Tokens] : n \in 1..MaxParts}

NamePool == {n \in {Cat(parts) : parts \in TokenLists} : IsFileName(n)}

\* the checksum values handed to write_checksum: the digests of the contents
Values == {DigestValue(k) : k \in Contents}

-----------------------------------------------------------------------------
(* FileRenamer driven directly, as a caller holding one file does *)

Idle ==
    /\ request = [files |-> <<>>, write |-> FALSE, delete |-> FALSE]
    /\ unreadable = {}
    /\ commands = <<>>
    /\ current = 0
    /\ futures = <<>>
    /\ presenter = <<>>
    /\ log = <<>>
    /\ runs = <<>>
    /\ exitCode = -1

\* no CompositeMetadata is in use
NoComposite ==
    /\ aggregate = <<>>
    /\ constructed = <<>>
    /\ added = <<>>

\* no FileMetadataFactory is in use
NoFactory ==
    /\ subject = <<>>
    /\ created = "none"
    /\ cache = <<>>
    /\ calls = <<>>
    /\ accesses = <<>>

\* no video adapter is in use
NoVideo ==
    /\ clip = <<>>
    /\ vpc = "none"
    /\ progress = 0
    /\ missed_frames = <<>>
    /\ captured = <<>>
    /\ clock = 0
    /\ reads = <<>>
    /\ fallback = "idle"
    /\ probes = <<>>

\* no frame specification is asked for
NoFrameSpec ==
    /\ measured = <<>>
    /\ derived = <<>>

\* no checksum is being encoded on its own
NoEncoding ==
    /\ decimal_number = <<>>
    /\ encoded = <<>>

\* no FileMetadata is computed
NoScan ==
    /\ digest = <<>>
    /\ scanned = <<>>

\* what a backend that has not run has returned
NotRun == [ran |-> FALSE, frames |-> <<>>]

\* no backend is compared with the other
NoBackends ==
    /\ handed = <<>>
    /\ opencv_frames = NotRun
    /\ ffmpeg_frames = NotRun

\* what Day.create has returned before it is called
NotCreated == [outcome |-> "none", list |-> <<>>]

\* no logbook is read
NoDays ==
    /\ notes = <<>>
    /\ days = NotCreated

\* what Logbook.parse has returned before it is called
NotParsed == [outcome |-> "none", errors |-> <<>>, saved |-> <<>>]

\* no logbook is parsed
NoLogbook ==
    /\ book = <<>>
    /\ summaries = <<>>
    /\ parsed = NotParsed

\* none of the parts added last is in use, but the one named
NoRestExcept(part) ==
    /\ part # "Encoding" => NoEncoding
    /\ part # "Scan" => NoScan
    /\ part # "Backends" => NoBackends
    /\ part # "Days" => NoDays
    /\ part # "Logbook" => NoLogbook

NoRest == NoRestExcept("")

\* a step of the part named leaves the other parts added last alone
RestUnchangedExcept(part) ==
    /\ part # "Encoding" => UNCHANGED encodingVars
    /\ part # "Scan" => UNCHANGED scanVars
    /\ part # "Backends" => UNCHANGED backendVars
    /\ part # "Days" => UNCHANGED dayVars
    /\ part # "Logbook" => UNCHANGED logbookVars

\* the chksum tool runs alone
OnlyChksum == NoComposite /\ NoFactory /\ NoVideo /\ NoFrameSpec /\ NoRest

InitRenamer ==
    /\ entry = "Renamer"
    /\ pc = "renamer"
    /\ \E f \in NamePool :
          /\ fs = (f :> 1)
          /\ cur = Checksum(f, DigestValue(1))
    /\ renames = <<>>
    /\ hist = <<>>
    /\ Idle
    /\ OnlyChksum

Called(op, arg, out) ==
    /\ hist' = Append(hist, [op |-> op, arg |-> arg, ret |-> out.ret,
                             raised |-> out.raised,
                             renamed |-> out.renames # renames,
                             count |-> Len(out.renames) - Len(renames),
                             before |-> DOMAIN fs, after |-> DOMAIN out.fs])
    /\ fs' = out.fs
    /\ renames' = out.renames
    /\ cur' = IF out.raised THEN cur ELSE out.ret

\* repository.write_checksum(Checksum(file, v))
RenamerWrite ==
    /\ pc = "renamer" /\ Len(hist) < MaxOps
    /\ \E v \in Values :
          Called("write", Checksum(cur.path, v),
                 write_checksum(fs, renames, Checksum(cur.path, v)))
    /\ UNCHANGED <<mainVars, otherVars>>

\* repository.delete_checksum(checksum)
RenamerDelete ==
    /\ pc = "renamer" /\ Len(hist) < MaxOps
    /\ Called("delete", cur, delete_checksum(fs, renames, cur))
    /\ UNCHANGED <<mainVars, otherVars>>

\* repository.checksum(file)
RenamerChecksum ==
    /\ pc = "renamer" /\ Len(hist) < MaxOps
    /\ Called("checksum", cur,
              [ret |-> checksum(cur.path).ret,
               raised |-> checksum(cur.path).raised,
               fs |-> fs, renames |-> renames])
    /\ UNCHANGED <<mainVars, otherVars>>

NextRenamer == RenamerWrite \/ RenamerDelete \/ RenamerChecksum

SpecRenamer == InitRenamer /\ [][NextRenamer]_vars

-----------------------------------------------------------------------------
(* Commands *)

Call(method, c) == [method |-> method, checksum |-> c]

\* what process(checksum) did: the presenter call, the repository methods
\* called in order, the directory and the rename log after it
Processed(call, repo, dir, rlog) ==
    [call |-> call, repo |-> repo, fs |-> dir, renames |-> rlog]

\* CheckCommand.process without the comparison: a locked name is always ok
CheckProcessNoCompare(dir, rlog, c) ==
    IF has_checksum(c.path)
    THEN Processed(Call("ok", c), <<"has_checksum", "checksum">>, dir, rlog)
    ELSE Processed(Call("show", c), <<"has_checksum">>, dir, rlog)

\* CheckCommand.process
CheckProcess(dir, rlog, c) ==
    IF has_checksum(c.path)
    THEN IF checksum(c.path).ret = c
         THEN Processed(Call("ok", c), <<"has_checksum", "checksum">>,
                        dir, rlog)
         ELSE Processed(Call("fail", c), <<"has_checksum", "checksum">>,
                        dir, rlog)
    ELSE Processed(Call("show", c), <<"has_checksum">>, dir, rlog)

\* a ComputeCommand.process that embeds the checksum it shows
ComputeProcessRenames(dir, rlog, c) ==
    LET out == write_checksum(dir, rlog, c) IN
    IF out.raised
    THEN Processed(Call("show", c), <<>>, dir, rlog)
    ELSE Processed(Call("show", c), <<>>, out.fs, out.renames)

\* ComputeCommand.process
ComputeProcess(dir, rlog, c) == Processed(Call("show", c), <<>>, dir, rlog)

\* WriteCommand.process notifying added with the checksum it was given
\* instead of the one write_checksum returned
WriteProcessOldPath(dir, rlog, c) ==
    IF ~has_checksum(c.path)
    THEN LET out == write_checksum(dir, rlog, c) IN
         IF out.raised
         THEN Processed(Call("show", c), <<"has_checksum", "write_checksum">>,
                        dir, rlog)
         ELSE Processed(Call("added", c),
                        <<"has_checksum", "write_checksum">>,
                        out.fs, out.renames)
    ELSE Processed(Call("show", c), <<"has_checksum">>, dir, rlog)

\* WriteCommand.process and _add_checksum
WriteProcess(dir, rlog, c) ==
    IF ~has_checksum(c.path)
    THEN LET out == write_checksum(dir, rlog, c) IN
         IF out.raised
         THEN Processed(Call("show", c), <<"has_checksum", "write_checksum">>,
                        dir, rlog)
         ELSE Processed(Call("added", out.ret),
                        <<"has_checksum", "write_checksum">>,
                        out.fs, out.renames)
    ELSE Processed(Call("show", c), <<"has_checksum">>, dir, rlog)

\* DeleteCommand.process without the comparison with the embedded checksum
DeleteProcessUnverified(dir, rlog, c) ==
    IF has_checksum(c.path)
    THEN LET out == delete_checksum(dir, rlog, c) IN
         IF out.raised
         THEN Processed(Call("ok", c),
                        <<"has_checksum", "delete_checksum">>, dir, rlog)
         ELSE Processed(Call("deleted", out.ret),
                        <<"has_checksum", "delete_checksum">>,
                        out.fs, out.renames)
    ELSE Processed(Call("show", c), <<"has_checksum">>, dir, rlog)

\* DeleteCommand.process notifying show when the rename fails
DeleteProcessShowsOnRace(dir, rlog, c) ==
    IF has_checksum(c.path)
    THEN LET expected_checksum == checksum(c.path).ret
             out == delete_checksum(dir, rlog, c)
         IN IF c = expected_checksum
            THEN IF out.raised
                 THEN Processed(Call("show", c),
                          <<"has_checksum", "checksum", "delete_checksum">>,
                          dir, rlog)
                 ELSE Processed(Call("deleted", out.ret),
                          <<"has_checksum", "checksum", "delete_checksum">>,
                          out.fs, out.renames)
            ELSE Processed(Call("fail", c), <<"has_checksum", "checksum">>,
                           dir, rlog)
    ELSE Processed(Call("show", c), <<"has_checksum">>, dir, rlog)

\* DeleteCommand.process and _delete_checksum
DeleteProcess(dir, rlog, c) ==
    IF has_checksum(c.path)
    THEN LET expected_checksum == checksum(c.path).ret
             out == delete_checksum(dir, rlog, c)
         IN IF c = expected_checksum
            THEN IF out.raised
                 THEN Processed(Call("ok", c),
                          <<"has_checksum", "checksum", "delete_checksum">>,
                          dir, rlog)
                 ELSE Processed(Call("deleted", out.ret),
                          <<"has_checksum", "checksum", "delete_checksum">>,
                          out.fs, out.renames)
            ELSE Processed(Call("fail", c), <<"has_checksum", "checksum">>,
                           dir, rlog)
    ELSE Processed(Call("show", c), <<"has_checksum">>, dir, rlog)

Process(kind, dir, rlog, c) ==
    CASE kind = "Check"   -> CheckProcess(dir, rlog, c)
      [] kind = "Delete"  -> DeleteProcess(dir, rlog, c)
      [] kind = "Compute" -> ComputeProcess(dir, rlog, c)
      [] kind = "Write"   -> WriteProcess(dir, rlog, c)

Kinds == <<"Check", "Delete", "Compute", "Write">>

Range(seq) == {seq[i] : i \in 1..Len(seq)}

\* _filter_files without the input condition
filter_files_any_flag(files, repository_condition, input_condition) ==
    SelectSeq(files, LAMBDA f : repository_condition[f])

\* CommandFactory._filter_files; the repository condition is the callable
\* tabulated over the files
filter_files(files, repository_condition, input_condition) ==
    SelectSeq(files, LAMBDA f : repository_condition[f] /\ input_condition)

\* CommandFactory.create
create(req) ==
    LET files == req.files
        write_flag == req.write
        delete_flag == req.delete
        locked == [f \in Range(files) |-> has_checksum(f)]
        does_not_have_checksum == [f \in Range(files) |-> ~has_checksum(f)]
    IN <<[kind |-> "Check",
          files |-> filter_files(files, locked, ~delete_flag)],
         [kind |-> "Delete",
          files |-> filter_files(files, locked, delete_flag)],
         [kind |-> "Compute",
          files |-> filter_files(files, does_not_have_checksum, ~write_flag)],
         [kind |-> "Write",
          files |-> filter_files(files, does_not_have_checksum, write_flag)]>>

-----------------------------------------------------------------------------
(* A run: Main.run, or one Command constructed and run by its caller *)

NoExit == -1

\* the names of the files of a request
NU  == <<"a">>
NUx == <<"a", ".", "t">>
NL1 == <<"a", ".">> \o DigestValue(1) \o <<".", "t">>
NL2 == <<"a", ".">> \o DigestValue(2)
NL3 == <<"b", ".">> \o DigestValue(1)

\* a locked file whose checksum segment is written in upper case
NLU == <<"b", ".">> \o C13

\* a locked file whose name is only a dot and the checksum of its content
NLd == Dot \o DigestValue(1)

MainPool == {NU, NUx, NL1, NL2}

\* the content of the unlocked files: locking NU gives NL2, NUx gives NL1
UnlockedContent == (NU :> 2) @@ (NUx :> 1)

FileLists == UNION {[1..n -> MainPool] : n \in 0..MaxFiles}

\* two locked files whose content matches, one locked file whose content
\* does not, two unlocked files
Batch5 == <<NL1, NU, NL3, NL2, NUx>>
Batch5Fs == (NL1 :> 1) @@ (NL2 :> 2) @@ (NL3 :> 2) @@ (NU :> 1) @@ (NUx :> 2)

\* the files of a request exist when the command line is parsed; a locked
\* file holds any content; any one file may be unreadable for the digester
InitFiles ==
    \/ \E files \in FileLists :
          /\ request \in [files : {files}, write : BOOLEAN, delete : BOOLEAN]
          /\ fs \in [Range(files) -> Contents]
          /\ \A f \in Range(files) :
                ~has_checksum(f) => fs[f] = UnlockedContent[f]
          /\ \E bad \in SUBSET Range(files) :
                Cardinality(bad) <= 1 /\ unreadable = bad
    \/ /\ request \in [files : {Batch5}, write : BOOLEAN, delete : BOOLEAN]
       /\ fs = Batch5Fs
       /\ unreadable = {}
    \/ \E f \in {NLU, NLd} :
          /\ request \in [files : {<<f>>}, write : BOOLEAN, delete : BOOLEAN]
          /\ fs \in [{f} -> Contents]
          /\ unreadable = {}

InitRun ==
    /\ InitFiles
    /\ renames = <<>>
    /\ cur = NoValue
    /\ hist = <<>>
    /\ futures = <<>>
    /\ presenter = <<>>
    /\ log = <<>>
    /\ runs = <<>>
    /\ exitCode = NoExit
    /\ OnlyChksum

\* Main(): the commands are made by the factory when run() starts
InitMain ==
    /\ entry = "Main"
    /\ InitRun
    /\ commands = <<>>
    /\ current = 0
    /\ pc = "create"

\* a caller constructs one command over files of its choice and runs it
InitCommand ==
    /\ entry = "Command"
    /\ InitRun
    /\ \E k \in 1..Len(Kinds) :
          commands = <<[kind |-> Kinds[k], files |-> request.files]>>
    /\ current = 1
    /\ pc = "submit"

Init == InitMain \/ InitCommand

\* Main.run: max([0 if r["success"] else 1 for r in runs])
ExitOf(rs) == IF \E i \in 1..Len(rs) : ~rs[i] THEN 1 ELSE 0

\* Main.run, first step: self.command_factory.create()
Create ==
    /\ pc = "create"
    /\ commands' = create(request)
    /\ current' = 1
    /\ pc' = "submit"
    /\ UNCHANGED <<renamerVars, entry, request, unreadable, futures,
                   presenter, log, runs, exitCode, otherVars>>

\* Main.run that stops at the first command that failed
ReturnStopsAtFailure(success) ==
    /\ runs' = Append(runs, success)
    /\ futures' = <<>>
    /\ IF current < Len(commands) /\ success
       THEN /\ current' = current + 1
            /\ pc' = "submit"
            /\ exitCode' = exitCode
       ELSE /\ current' = current
            /\ pc' = "finished"
            /\ exitCode' = IF entry = "Main"
                           THEN ExitOf(Append(runs, success))
                           ELSE exitCode

\* Command.run returns: the next command runs, or Main.run returns
Return(success) ==
    /\ runs' = Append(runs, success)
    /\ futures' = <<>>
    /\ IF current < Len(commands)
       THEN /\ current' = current + 1
            /\ pc' = "submit"
            /\ exitCode' = exitCode
       ELSE /\ current' = current
            /\ pc' = "finished"
            /\ exitCode' = IF entry = "Main"
                           THEN ExitOf(Append(runs, success))
                           ELSE exitCode

\* Command.run enters compute_checksums: one future per file is submitted;
\* with no file the loop ends at once
Submit ==
    /\ pc = "submit"
    /\ LET files == commands[current].files IN
       IF files = <<>>
       THEN Return(TRUE)
       ELSE /\ futures' = [i \in 1..Len(files) |->
                              [file |-> files[i], state |-> "pending",
                               result |-> NoValue, content |-> 0]]
            /\ pc' = "iterate"
            /\ UNCHANGED <<runs, current, exitCode>>
    /\ UNCHANGED <<renamerVars, entry, request, unreadable, commands,
                   presenter, log, otherVars>>

\* a worker process runs digester.compute_digest for one future; content
\* records what the file held then, 0 when there was no such file
Worker(i) ==
    /\ pc = "iterate"
    /\ futures[i].state = "pending"
    /\ LET file == futures[i].file
           d == compute_digest(fs, unreadable, file) IN
       futures' = [futures EXCEPT
                      ![i].state = IF d.raised THEN "raised" ELSE "done",
                      ![i].result = d.ret,
                      ![i].content = IF file \in DOMAIN fs
                                     THEN fs[file] ELSE 0]
    /\ UNCHANGED <<renamerVars, entry, request, unreadable, commands,
                   current, presenter, log, runs, exitCode, pc, otherVars>>

AllTaken(fut) == \A j \in 1..Len(fut) : fut[j].state = "taken"

\* as_completed hands a finished future to the loop of Command.run:
\* its result is processed, or its exception ends the command
Take(i) ==
    /\ pc = "iterate"
    /\ futures[i].state \in {"done", "raised"}
    /\ LET kind == commands[current].kind
           c == futures[i].result
           taken == [futures EXCEPT ![i].state = "taken"]
       IN IF futures[i].state = "raised"
          THEN /\ presenter' = Append(presenter, Call("error", NoValue))
               /\ log' = Append(log, [kind |-> kind, file |-> futures[i].file,
                                      raised |-> TRUE, checksum |-> NoValue,
                                      content |-> futures[i].content,
                                      repo |-> <<>>, before |-> fs,
                                      after |-> fs])
               /\ Return(FALSE)
               /\ UNCHANGED <<fs, renames>>
          ELSE LET p == Process(kind, fs, renames, c) IN
               /\ presenter' = Append(presenter, p.call)
               /\ log' = Append(log, [kind |-> kind, file |-> futures[i].file,
                                      raised |-> FALSE, checksum |-> c,
                                      content |-> futures[i].content,
                                      repo |-> p.repo, before |-> fs,
                                      after |-> p.fs])
               /\ fs' = p.fs
               /\ renames' = p.renames
               /\ IF AllTaken(taken)
                  THEN Return(TRUE)
                  ELSE /\ futures' = taken
                       /\ UNCHANGED <<runs, current, exitCode, pc>>
    /\ UNCHANGED <<cur, hist, entry, request, unreadable, commands,
                   otherVars>>

Next ==
    \/ Create
    \/ Submit
    \/ \E i \in 1..Len(futures) : Worker(i)
    \/ \E i \in 1..Len(futures) : Take(i)

Spec == Init /\ [][Next]_vars

-----------------------------------------------------------------------------
(* CompositeMetadata *)

\* the classes declared as subclasses of Metadata that are handed to a
\* CompositeMetadata
MetadataClasses ==
    {"FileMetadata", "AudioFileMetadata", "ImageFileMetadata",
     "VideoFileMetadata"}

\* the objects handed to a CompositeMetadata: two FileMetadata, one
\* AudioFileMetadata and the string "33"; equal records are the same object
Objects ==
    {[cls |-> "FileMetadata", id |-> "existing"],
     [cls |-> "FileMetadata", id |-> "new"],
     [cls |-> "AudioFileMetadata", id |-> "audio"],
     [cls |-> "str", id |-> "33"]}

type(m) == m.cls

isinstance(m, classes) == m.cls \in classes

\* a dict is the sequence of its items [key, value] in key order
Keys(d) == {d[i].key : i \in 1..Len(d)}

KeyIndex(d, k) == CHOOSE i \in 1..Len(d) : d[i].key = k

\* an update that adds an item even when the key is there
update_appends(d, k, v) == Append(d, [key |-> k, value |-> v])

\* an update that moves the key it sets to the end
update_moves_to_end(d, k, v) ==
    Append(SelectSeq(d, LAMBDA item : item.key # k), [key |-> k, value |-> v])

\* dict.update({k: v}) and d[k] = v: a key that is there keeps its place
update(d, k, v) ==
    IF k \in Keys(d)
    THEN [d EXCEPT ![KeyIndex(d, k)].value = v]
    ELSE Append(d, [key |-> k, value |-> v])

\* CompositeMetadata.__init__: {type(m): m for m in metadata}
RECURSIVE comprehension(_)
comprehension(metadata) ==
    IF metadata = <<>> THEN <<>>
    ELSE LET m == metadata[Len(metadata)] IN
         update(comprehension(SubSeq(metadata, 1, Len(metadata) - 1)),
                type(m), m)

\* CompositeMetadata.get
get(d, cls) == d[KeyIndex(d, cls)].value

\* an add that stores the object before it checks it
add_stores_first(d, metadata, overwrite) ==
    IF ~isinstance(metadata, MetadataClasses)
    THEN [raised |-> TRUE, aggregate |-> update(d, type(metadata), metadata)]
    ELSE IF /\ ~overwrite
            /\ type(metadata) \in Keys(d)
            /\ metadata # get(d, type(metadata))
         THEN [raised |-> TRUE,
               aggregate |-> update(d, type(metadata), metadata)]
         ELSE [raised |-> FALSE,
               aggregate |-> update(d, type(metadata), metadata)]

\* CompositeMetadata.add
add(d, metadata, overwrite) ==
    IF ~isinstance(metadata, MetadataClasses)
    THEN [raised |-> TRUE, aggregate |-> d]
    ELSE IF /\ ~overwrite
            /\ type(metadata) \in Keys(d)
            /\ metadata # get(d, type(metadata))
         THEN [raised |-> TRUE, aggregate |-> d]
         ELSE [raised |-> FALSE,
               aggregate |-> update(d, type(metadata), metadata)]

\* CompositeMetadata.children
children(d) == [i \in 1..Len(d) |-> d[i].value]

ArgLists == UNION {[1..n -> Objects] : n \in 0..MaxArgs}

\* CompositeMetadata(*metadata)
InitComposite ==
    /\ entry = "Composite"
    /\ pc = "composite"
    /\ fs = <<>>
    /\ renames = <<>>
    /\ cur = NoValue
    /\ hist = <<>>
    /\ Idle
    /\ NoFactory /\ NoVideo /\ NoFrameSpec /\ NoRest
    /\ \E metadata \in ArgLists :
          /\ constructed = metadata
          /\ aggregate = comprehension(metadata)
    /\ added = <<>>

\* composite_metadata.add(metadata, overwrite)
Add ==
    /\ entry = "Composite" /\ Len(added) < MaxAdds
    /\ \E metadata \in Objects, overwrite \in BOOLEAN :
          LET r == add(aggregate, metadata, overwrite) IN
          /\ aggregate' = r.aggregate
          /\ added' = Append(added, [metadata |-> metadata,
                                     overwrite |-> overwrite,
                                     raised |-> r.raised,
                                     before |-> aggregate,
                                     after |-> r.aggregate])
    /\ UNCHANGED <<constructed, renamerVars, mainVars, restVars, factoryVars, videoVars,
                   frameSpecVars>>

NextComposite == Add

SpecComposite == InitComposite /\ [][NextComposite]_vars

-----------------------------------------------------------------------------
(* FileMetadataFactory and the lazily derived media metadata *)

\* the chksum tool is not in use
NoFiles ==
    /\ fs = <<>>
    /\ renames = <<>>
    /\ cur = NoValue
    /\ hist = <<>>
    /\ Idle

Media == {"image", "audio", "video"}

\* the class create_metadata adds for each answer of the FileTypeAdapter
MediaClass ==
    [image |-> "ImageFileMetadata", audio |-> "AudioFileMetadata",
     video |-> "VideoFileMetadata"]

MediumOf(cls) == CHOOSE m \in Media : MediaClass[m] = cls

\* the attributes of each class that a caller reads
Attributes ==
    [FileMetadata |-> {"checksum"},
     ImageFileMetadata |-> {"image_metadata"},
     AudioFileMetadata |-> {"duration", "entropy"},
     VideoFileMetadata |-> {"duration", "frame_rate", "width", "height"}]

\* A file as the collaborators see it: readable (stat and the histogram
\* read succeed), is[m] (FileTypeAdapter.is_image, is_audio, is_video) and
\* decodes[m] (ImageAdapter.load, AudioAdapter.metrics, VideoAdapter.metrics
\* return rather than raise); decodes is only looked at for a typed medium.
Subjects ==
    {f \in [readable : BOOLEAN, is : [Media -> BOOLEAN],
            decodes : [Media -> BOOLEAN]] :
        \A m \in Media : ~f.is[m] => f.decodes[m]}

\* the metadata object of a class made for the path
Member(cls) == [cls |-> cls, id |-> "path"]

\* metadata.add(...) as the next statement, when wanted
Then(r, wanted, metadata) ==
    IF r.raised \/ ~wanted THEN r ELSE add(r.aggregate, metadata, FALSE)

\* a create_metadata that stops at the first type that applies
create_metadata_first_type(f) ==
    IF ~f.readable
    THEN [raised |-> TRUE, aggregate |-> <<>>]
    ELSE Then(Then(Then(add(<<>>, Member("FileMetadata"), FALSE),
                        f.is["image"], Member(MediaClass["image"])),
                   f.is["audio"] /\ ~f.is["image"],
                   Member(MediaClass["audio"])),
              f.is["video"] /\ ~f.is["image"] /\ ~f.is["audio"],
              Member(MediaClass["video"]))

\* a create_metadata that decodes while it constructs and omits a type
\* that does not decode
create_metadata_decoding(f) ==
    IF ~f.readable
    THEN [raised |-> TRUE, aggregate |-> <<>>]
    ELSE Then(Then(Then(add(<<>>, Member("FileMetadata"), FALSE),
                        f.is["image"] /\ f.decodes["image"],
                        Member(MediaClass["image"])),
                   f.is["audio"] /\ f.decodes["audio"],
                   Member(MediaClass["audio"])),
              f.is["video"] /\ f.decodes["video"],
              Member(MediaClass["video"]))

\* FileMetadataFactory.create_metadata: FileMetadata computes its fields in
\* its constructor and raises on a file it cannot read; the constructors of
\* the media metadata only store their arguments
create_metadata(f) ==
    IF ~f.readable
    THEN [raised |-> TRUE, aggregate |-> <<>>]
    ELSE Then(Then(Then(add(<<>>, Member("FileMetadata"), FALSE),
                        f.is["image"], Member(MediaClass["image"])),
                   f.is["audio"], Member(MediaClass["audio"])),
              f.is["video"], Member(MediaClass["video"]))

\* a plain property: the adapter is called at every read
property_uncached(cls, cached, made, ok) ==
    [raised |-> ~ok, cache |-> cached,
     calls |-> [made EXCEPT ![cls] = @ + 1]]

\* functools.cached_property over an adapter call: the value is stored
\* when the call returns, nothing is stored when it raises
cached_property(cls, cached, made, ok) ==
    IF cached[cls]
    THEN [raised |-> FALSE, cache |-> cached, calls |-> made]
    ELSE [raised |-> ~ok, cache |-> [cached EXCEPT ![cls] = ok],
          calls |-> [made EXCEPT ![cls] = @ + 1]]

\* reading an attribute of a member: the fields of FileMetadata are there
\* since its construction, the media classes go through _metrics or
\* image_metadata
read(cls, cached, made, f) ==
    IF cls = "FileMetadata"
    THEN [raised |-> FALSE, cache |-> cached, calls |-> made]
    ELSE cached_property(cls, cached, made, f.decodes[MediumOf(cls)])

InitFactory ==
    /\ entry = "Factory"
    /\ pc = "factory"
    /\ NoFiles
    /\ NoComposite /\ NoVideo /\ NoFrameSpec /\ NoRest
    /\ subject \in Subjects
    /\ created = "none"
    /\ cache = [c \in MetadataClasses |-> FALSE]
    /\ calls = [c \in MetadataClasses |-> 0]
    /\ accesses = <<>>

\* factory.create_metadata(path)
CreateMetadata ==
    /\ entry = "Factory" /\ created = "none"
    /\ LET r == create_metadata(subject) IN
       /\ created' = IF r.raised THEN "raised" ELSE "returned"
       /\ aggregate' = r.aggregate
    /\ UNCHANGED <<subject, cache, calls, accesses, constructed, added,
                   renamerVars, mainVars, restVars, videoVars, frameSpecVars>>

\* metadata.get(cls).attr on the bundle create_metadata returned
Access ==
    /\ entry = "Factory" /\ created = "returned"
    /\ Len(accesses) < MaxAccesses
    /\ \E i \in 1..Len(aggregate) :
          \E attr \in Attributes[aggregate[i].key] :
             LET cls == aggregate[i].key
                 r == read(cls, cache, calls, subject)
             IN /\ cache' = r.cache
                /\ calls' = r.calls
                /\ accesses' = Append(accesses,
                                      [cls |-> cls, attr |-> attr,
                                       raised |-> r.raised,
                                       calls_before |-> calls[cls],
                                       calls_after |-> r.calls[cls]])
    /\ UNCHANGED <<subject, created, metadataVars, renamerVars, mainVars, restVars,
                   videoVars, frameSpecVars>>

NextFactory == CreateMetadata \/ Access

SpecFactory == InitFactory /\ [][NextFactory]_vars

-----------------------------------------------------------------------------
(* DefaultVideoAdapter.frame_spec *)

DEFAULT_TIMEOUT == 60
DEFAULT_SIZE == 256
\* DEFAULT_START_PERCENTAGE = 2.5, in thousandths
StartPerMille == 25
\* end_percentage = 100 - DEFAULT_START_PERCENTAGE, in thousandths
EndPerMille == 1000 - StartPerMille
\* the default of the parameter min_sample_size
MinSampleSize == 3

\* math.ceil(a / b) for a >= 0, b > 0
Ceil(a, b) == (a + b - 1) \div b

RECURSIVE Pow(_, _)
Pow(b, e) == IF e = 0 THEN 1 ELSE b * Pow(b, e - 1)

\* int(m * (math.log(x, 10) + 1)) for x >= 1: m plus the largest k with
\* 10^k <= x^m. The double arithmetic of the code agrees with this for
\* every x < 1000.
LogScaled(x, m) ==
    m + (CHOOSE k \in 0..(3 * m) :
            /\ Pow(10, k) <= Pow(x, m)
            /\ Pow(10, k + 1) > Pow(x, m))

\* list(range(start, stop, step)) for step > 0
Range3(start, stop, step) ==
    [k \in 1..(IF stop > start THEN Ceil(stop - start, step) ELSE 0) |->
        start + (k - 1) * step]

\* frame_spec, the frame numbers
frame_numbers(n, min_sample_size) ==
    LET start_frame == Ceil(n * StartPerMille, 1000)
        end_frame == Ceil(n * EndPerMille, 1000)
        frames_in_range == end_frame - start_frame + 1
        log_frames == LogScaled(frames_in_range + 1, min_sample_size)
        target_number_of_frames ==
            IF log_frames > min_sample_size
            THEN IF log_frames < frames_in_range
                 THEN log_frames ELSE frames_in_range
            ELSE min_sample_size
        step_size == Ceil(frames_in_range, target_number_of_frames)
    IN Range3(start_frame, end_frame + 1, step_size)

\* The pairs <<width, height>> of the pool, width >= height, for which the
\* double DEFAULT_SIZE / (width / height) falls just below the integer
\* DEFAULT_SIZE * height / width, so that int() gives one less.
RoundsBelow == {<<128, 93>>, <<256, 93>>}

\* frame_spec, the size; aspect is a double
size(width, height) ==
    IF width < height
    THEN <<(DEFAULT_SIZE * width) \div height, DEFAULT_SIZE>>
    ELSE <<DEFAULT_SIZE,
           (DEFAULT_SIZE * height) \div width
              - (IF <<width, height>> \in RoundsBelow THEN 1 ELSE 0)>>

\* DefaultVideoAdapter.frame_spec on the metrics of the clip
frame_spec(metrics) ==
    [metrics |-> metrics,
     size |-> size(metrics.width, metrics.height),
     frame_numbers |-> frame_numbers(metrics.number_of_frames, MinSampleSize)]

\* the edges of the clips: the clip of the tests is 190 x 240
Edges == {1, 93, 128, 190, 240, 256, 300}

\* the lengths of the clips: the clip of the tests has 149 frames
ClipLengths == (1..MaxClipFrames) \cup {149}

InitFrameSpec ==
    /\ entry = "FrameSpec"
    /\ pc = "frame_spec"
    /\ NoFiles
    /\ NoComposite /\ NoFactory /\ NoVideo /\ NoRest
    /\ measured \in [number_of_frames : ClipLengths, width : Edges,
                      height : Edges]
    /\ derived = <<>>

\* adapter.frame_spec(path)
FrameSpecCall ==
    /\ entry = "FrameSpec" /\ derived = <<>>
    /\ derived' = frame_spec(measured)
    /\ UNCHANGED <<measured, renamerVars, mainVars, restVars, metadataVars, factoryVars,
                   videoVars>>

NextFrameSpec == FrameSpecCall

SpecFrameSpec == InitFrameSpec /\ [][NextFrameSpec]_vars

-----------------------------------------------------------------------------
(* DefaultVideoAdapter.metrics and frames, OpencvVideoAdapter.frames *)

\* metrics that gives up when the first prober raises
metrics_first_only(first_ok, second_ok) ==
    [raised |-> ~first_ok,
     source |-> IF first_ok THEN "ffmpeg" ELSE "none",
     second_called |-> FALSE]

\* DefaultVideoAdapter.metrics: the ffmpeg prober, and the opencv prober
\* when the first raised; first_ok and second_ok say which of them return
metrics(first_ok, second_ok) ==
    IF first_ok
    THEN [raised |-> FALSE, source |-> "ffmpeg", second_called |-> FALSE]
    ELSE [raised |-> ~second_ok,
          source |-> IF second_ok THEN "opencv" ELSE "none",
          second_called |-> TRUE]

\* a time-out check that does not look at the progress
timed_out_at_any_progress(elapsed, done, target) == elapsed > DEFAULT_TIMEOUT

\* OpencvVideoAdapter.frames, the check after cap.read():
\* (time.monotonic() - start) > DEFAULT_TIMEOUT and
\* progress < len(spec.frame_numbers) * 3 / 4
timed_out(elapsed, done, target) ==
    elapsed > DEFAULT_TIMEOUT /\ 4 * done < 3 * target

\* OpencvVideoAdapter.frames, the strike on a frame that was not read:
\* len(missed_frames) >= 3
struck_out(missed) == Len(missed) >= 3

\* frames that hands the error of the primary backend to its caller
after_primary_propagates(primary_raised, capture) ==
    IF primary_raised THEN "raised"
    ELSE IF capture # <<>> THEN "returned" ELSE "fallback"

\* DefaultVideoAdapter.frames after the call of the opencv adapter: its
\* frames are returned when it returned some, else the ffmpeg adapter runs
after_primary(primary_raised, capture) ==
    IF ~primary_raised /\ capture # <<>> THEN "returned" ELSE "fallback"

\* seconds that pass during one cap.read()
Ticks == {0, DEFAULT_TIMEOUT \div 2, DEFAULT_TIMEOUT \div 2 + 1}

\* the lengths of the clips frames are taken from
VideoLengths == {1, 4}

\* one pass of the loop, as recorded in reads
Pass(frame_number, outcome, elapsed, done, missed) ==
    [frame_number |-> frame_number, outcome |-> outcome,
     elapsed |-> elapsed, progress |-> done, missed_before |-> Len(missed)]

InitVideo ==
    /\ entry = "Video"
    /\ pc = "video"
    /\ NoFiles
    /\ NoComposite /\ NoFactory /\ NoFrameSpec /\ NoRest
    /\ \E n \in VideoLengths, given \in BOOLEAN :
          clip = [number_of_frames |-> n, given |-> given,
                  frame_numbers |-> frame_numbers(n, MinSampleSize)]
    /\ vpc = "start"
    /\ progress = 0
    /\ missed_frames = <<>>
    /\ captured = <<>>
    /\ clock = 0
    /\ reads = <<>>
    /\ fallback = "idle"
    /\ probes = <<>>

\* a caller asks adapter.metrics(path), before or after it asks for frames
Probe ==
    /\ entry = "Video" /\ vpc \in {"start", "returned", "raised"}
    /\ Len(probes) < MaxProbes
    /\ \E first_ok, second_ok \in BOOLEAN :
          probes' = Append(probes,
                           [first_ok |-> first_ok, second_ok |-> second_ok,
                            result |-> metrics(first_ok, second_ok),
                            during |-> vpc, backend |-> fallback])
    /\ UNCHANGED <<clip, vpc, progress, missed_frames, captured, clock, reads,
                   fallback, renamerVars, mainVars, restVars, metadataVars,
                   factoryVars, frameSpecVars>>

\* DefaultVideoAdapter.frames up to the loop of the opencv adapter: the
\* frame specification is derived when none was passed, the capture is
\* opened and set to the first frame number, start is taken
FramesCall ==
    /\ entry = "Video" /\ vpc = "start"
    /\ \E first_ok, second_ok, opened \in BOOLEAN :
          IF ~clip.given /\ metrics(first_ok, second_ok).raised
          THEN /\ vpc' = "raised"
               /\ reads' = reads
          ELSE IF ~opened
               THEN /\ vpc' = after_primary(TRUE, <<>>)
                    /\ reads' = Append(reads, Pass(clip.frame_numbers[1],
                                                   "open", 0, 0, <<>>))
               ELSE /\ vpc' = "primary"
                    /\ reads' = reads
    /\ UNCHANGED <<clip, progress, missed_frames, captured, clock, fallback,
                   probes, renamerVars, mainVars, restVars, metadataVars, factoryVars,
                   frameSpecVars>>

\* one pass of the loop over spec.frame_numbers; after the last pass the
\* opencv adapter returns its frames
ReadFrame ==
    /\ entry = "Video" /\ vpc = "primary"
    /\ progress < Len(clip.frame_numbers)
    /\ \E seek_ok, ret \in BOOLEAN, dt \in Ticks :
          LET done == progress + 1
              target == Len(clip.frame_numbers)
              frame_number == clip.frame_numbers[done]
              elapsed == IF seek_ok THEN clock + dt ELSE clock
              outcome ==
                  IF ~seek_ok THEN "seek"
                  ELSE IF timed_out(elapsed, done, target) THEN "timeout"
                  ELSE IF ~ret
                       THEN IF struck_out(missed_frames)
                            THEN "strike" ELSE "missed"
                       ELSE "frame"
              frames == IF outcome = "frame"
                        THEN Append(captured, frame_number) ELSE captured
          IN /\ progress' = done
             /\ clock' = elapsed
             /\ captured' = frames
             /\ missed_frames' = IF outcome = "missed"
                                  THEN Append(missed_frames, frame_number)
                                  ELSE missed_frames
             /\ reads' = Append(reads, Pass(frame_number, outcome, elapsed,
                                            done, missed_frames))
             /\ vpc' = IF outcome \in {"seek", "timeout", "strike"}
                       THEN after_primary(TRUE, frames)
                       ELSE IF done = target
                            THEN after_primary(FALSE, frames)
                            ELSE "primary"
    /\ UNCHANGED <<clip, fallback, probes, renamerVars, mainVars, restVars,
                   metadataVars, factoryVars, frameSpecVars>>

\* return self._ffmpeg_adapter.frames(path, frame_spec)
Fallback ==
    /\ entry = "Video" /\ vpc = "fallback"
    /\ \E result \in {"returned", "empty", "raised"} :
          /\ fallback' = result
          /\ vpc' = IF result = "raised" THEN "raised" ELSE "returned"
    /\ UNCHANGED <<clip, progress, missed_frames, captured, clock, reads,
                   probes, renamerVars, mainVars, restVars, metadataVars, factoryVars,
                   frameSpecVars>>

NextVideo == Probe \/ FramesCall \/ ReadFrame \/ Fallback

SpecVideo == InitVideo /\ [][NextVideo]_vars

-----------------------------------------------------------------------------
(* QuarterSha256Base36Digester: from the quarter of a digest to a checksum *)

\* the values a byte of the digest takes here
ByteSamples == {0, 1, 255}

\* digest[0 : len(digest) // 4] of a SHA-256 digest: 8 bytes
QuarterLength == 8

InitEncoding ==
    /\ entry = "Encoding"
    /\ pc = "encoding"
    /\ NoFiles
    /\ NoComposite /\ NoFactory /\ NoVideo /\ NoFrameSpec
    /\ NoRestExcept("Encoding")
    /\ decimal_number \in [1..QuarterLength -> ByteSamples]
    /\ encoded = <<>>

\* checksum = self.base_36(decimal_number).zfill(self.length)
Encode ==
    /\ entry = "Encoding" /\ encoded = <<>>
    /\ encoded' = zfill(base_36(decimal_number), Length)
    /\ RestUnchangedExcept("Encoding")
    /\ UNCHANGED <<decimal_number, renamerVars, mainVars, metadataVars,
                   factoryVars, videoVars, frameSpecVars>>

NextEncoding == Encode

SpecEncoding == InitEncoding /\ [][NextEncoding]_vars

-----------------------------------------------------------------------------
(* FileMetadata._compute_metadata with the digest of the factory *)

\* the bytes of the files scanned: an empty file and two small ones
FileBytes == {<<>>, <<97, 98>>, <<98>>}

\* the pairs of adjacent bytes, data[:-1] and data[1:], in order
BytePairs(data) == [i \in 1..(Len(data) - 1) |-> <<data[i], data[i + 1]>>]

\* the bytes of the histogram image and of its entropy: the image has a
\* pixel for each pair of adjacent bytes, here the pairs themselves
HistogramBytes(data) == Cat(BytePairs(data)) \o <<Len(BytePairs(data))>>

\* DefaultImageAdapter.histogram: digest.update(chunk) for every chunk read,
\* then digest.update of the histogram image and of its entropy; update
\* appends to what the digest holds
histogram(held, data) == held \o data \o HistogramBytes(data)

\* hexdigest of a digest that holds a sequence of bytes: the hash function
\* is abstracted by a rolling hash on 16 bits
RECURSIVE hexdigest(_)
hexdigest(held) ==
    IF held = <<>> THEN 7
    ELSE (hexdigest(SubSeq(held, 1, Len(held) - 1)) * 31
            + held[Len(held)] + 1) % 65536

\* FileMetadata._compute_metadata with the digest it was constructed with:
\* the digest after it and the checksum read from it
compute_metadata(held, data) ==
    [digest |-> histogram(held, data),
     checksum |-> hexdigest(histogram(held, data))]

\* FileMetadataFactory(): self._digest = blake2b(digest_size=8)
InitScan ==
    /\ entry = "Scan"
    /\ pc = "scan"
    /\ NoFiles
    /\ NoComposite /\ NoFactory /\ NoVideo /\ NoFrameSpec
    /\ NoRestExcept("Scan")
    /\ digest = <<>>
    /\ scanned = <<>>

\* create_metadata(path): FileMetadata(path, image_adapter, self._digest);
\* on a file that cannot be read stat() or open() raises before any update
CreateFileMetadata ==
    /\ entry = "Scan" /\ Len(scanned) < MaxScans
    /\ \E data \in FileBytes, readable \in BOOLEAN :
          IF readable
          THEN LET m == compute_metadata(digest, data) IN
               /\ digest' = m.digest
               /\ scanned' = Append(scanned,
                                    [bytes |-> data, raised |-> FALSE,
                                     checksum |-> m.checksum])
          ELSE /\ digest' = digest
               /\ scanned' = Append(scanned,
                                    [bytes |-> data, raised |-> TRUE,
                                     checksum |-> 0])
    /\ RestUnchangedExcept("Scan")
    /\ UNCHANGED <<renamerVars, mainVars, metadataVars, factoryVars,
                   videoVars, frameSpecVars>>

NextScan == CreateFileMetadata

SpecScan == InitScan /\ [][NextScan]_vars

-----------------------------------------------------------------------------
(* OpencvVideoAdapter.frames and FfmpegVideoAdapter.frames on one FrameSpec *)

\* the clips handed to both backends: lengths, edges and frame rates; the
\* clip of the tests has 149 frames of 190 x 240 at 30 frames per second
BackendLengths == {1, 5, 12, 149}
BackendEdges == {190, 240, 256}
FrameRates == {25, 30}

\* a frame as a caller sees it: the size of the image and its position,
\* the quotient frame_number / total_number_of_frames kept as a pair
Frame(frame_size, frame_number, total) ==
    [size |-> frame_size, position |-> <<frame_number, total>>]

\* OpencvVideoAdapter.frames when every frame is read in time: each frame
\* number of the FrameSpec, resized to spec.size
opencv_read(spec) ==
    [i \in 1..Len(spec.frame_numbers) |->
        Frame(spec.size, spec.frame_numbers[i],
              spec.metrics.number_of_frames)]

\* FfmpegVideoAdapter.frames: int(start_frame + i * frame_rate / target_fps)
\* with target_fps = target / ((end_frame - start_frame) / frame_rate + 1),
\* that is the floor of start_frame + i * (end_frame - start_frame +
\* frame_rate) / target
ffmpeg_frame_number(spec, i) ==
    LET start_frame == spec.frame_numbers[1]
        end_frame == spec.frame_numbers[Len(spec.frame_numbers)]
        target == Len(spec.frame_numbers)
    IN start_frame
         + (i * (end_frame - start_frame + spec.metrics.frame_rate))
             \div target

\* FfmpegVideoAdapter.frames when ffmpeg wrote `delivered` frames: scaled to
\* the width and height of the metrics, at the frame numbers it computes
ffmpeg_read(spec, delivered) ==
    [i \in 1..delivered |->
        Frame(<<spec.metrics.width, spec.metrics.height>>,
              ffmpeg_frame_number(spec, i - 1),
              spec.metrics.number_of_frames)]

InitBackends ==
    /\ entry = "Backends"
    /\ pc = "backends"
    /\ NoFiles
    /\ NoComposite /\ NoFactory /\ NoVideo /\ NoFrameSpec
    /\ NoRestExcept("Backends")
    /\ \E clip_metrics \in [number_of_frames : BackendLengths,
                             width : BackendEdges, height : BackendEdges,
                             frame_rate : FrameRates] :
          handed = frame_spec(clip_metrics)
    /\ opencv_frames = NotRun
    /\ ffmpeg_frames = NotRun

\* opencv_adapter.frames(path, frame_spec)
OpencvFrames ==
    /\ entry = "Backends" /\ ~opencv_frames.ran
    /\ opencv_frames' = [ran |-> TRUE, frames |-> opencv_read(handed)]
    /\ RestUnchangedExcept("Backends")
    /\ UNCHANGED <<handed, ffmpeg_frames, renamerVars, mainVars,
                   metadataVars, factoryVars, videoVars, frameSpecVars>>

\* ffmpeg_adapter.frames(path, frame_spec); the loop stops at the target
\* or when the output of ffmpeg holds no more frame
FfmpegFrames ==
    /\ entry = "Backends" /\ ~ffmpeg_frames.ran
    /\ \E delivered \in 0..Len(handed.frame_numbers) :
          ffmpeg_frames' = [ran |-> TRUE,
                            frames |-> ffmpeg_read(handed, delivered)]
    /\ RestUnchangedExcept("Backends")
    /\ UNCHANGED <<handed, opencv_frames, renamerVars, mainVars,
                   metadataVars, factoryVars, videoVars, frameSpecVars>>

NextBackends == OpencvFrames \/ FfmpegFrames

SpecBackends == InitBackends /\ [][NextBackends]_vars

-----------------------------------------------------------------------------
(* Day.create: the day files of a logbook and the threads linking them *)

\* a str is the sequence of its code points, as str and list compare by them
Digit(n) == 48 + n

Digits2(n) == <<Digit(n \div 10), Digit(n % 10)>>

Digits4(n) ==
    <<Digit(n \div 1000), Digit((n \div 100) % 10), Digit((n \div 10) % 10),
      Digit(n % 10)>>

\* "/", "-" and ".md"
SlashStr == <<47>>
HyphenStr == <<45>>
Md == <<46, 109, 100>>

\* the d-th date of the logbooks explored: two months of each year
DateOf(d) ==
    [year |-> 2020 + ((d - 1) \div 2), month |-> 7 + ((d - 1) % 2),
     day |-> 1]

Dates == {DateOf(d) : d \in 1..MaxDays}

\* f'{yyyy}{mm}{dd}.md'
MdName(when) ==
    Digits4(when.year) \o Digits2(when.month) \o Digits2(when.day) \o Md

\* Day.path: root / yyyy / mm / dd / yyyymmdd.md, as the parts below the root
CanonicalPath(when) ==
    <<Digits4(when.year), Digits2(when.month), Digits2(when.day),
      MdName(when)>>

\* a day file kept in one directory per day: yyyy-mm-dd / yyyymmdd.md
DashedPath(when) ==
    <<Digits4(when.year) \o HyphenStr \o Digits2(when.month) \o HyphenStr
        \o Digits2(when.day),
      MdName(when)>>

\* a day file kept in the root itself: yyyy-mm-dd-yyyymmdd.md
FlatPath(when) ==
    <<Digits4(when.year) \o HyphenStr \o Digits2(when.month) \o HyphenStr
        \o Digits2(when.day) \o HyphenStr \o MdName(when)>>

\* Logbook.path: root / index.md
IndexPath == <<<<105, 110, 100, 101, 120>> \o Md>>

\* relative_path(path, root): the parts joined by "/"
RECURSIVE relative_path(_)
relative_path(path) ==
    IF Len(path) = 1 THEN Head(path)
    ELSE Head(path) \o SlashStr \o relative_path(Tail(path))

IsDigitChar(c) == c \in 48..57

\* Day.PATH_PATTERN.match: four, two and two digits, each followed by any
\* character but a line break, then the same digits again and ".md"
pattern_matches(path) ==
    LET s == relative_path(path)
    IN  /\ Len(s) = 22
        /\ \A i \in {1, 2, 3, 4, 6, 7, 9, 10} : IsDigitChar(s[i])
        /\ \A i \in {5, 8, 11} : s[i] # 10
        /\ SubSeq(s, 12, 15) = SubSeq(s, 1, 4)
        /\ SubSeq(s, 16, 17) = SubSeq(s, 6, 7)
        /\ SubSeq(s, 18, 19) = SubSeq(s, 9, 10)
        /\ SubSeq(s, 20, 22) = Md

\* str < str and list < list: the first difference decides, a proper prefix
\* is smaller
RECURSIVE StrLess(_, _)
StrLess(a, b) ==
    IF a = <<>> THEN b # <<>>
    ELSE IF b = <<>> THEN FALSE
    ELSE IF Head(a) # Head(b) THEN Head(a) < Head(b)
    ELSE StrLess(Tail(a), Tail(b))

\* PurePath.__lt__: the parts compared as lists of str
RECURSIVE PathLess(_, _)
PathLess(p, q) ==
    IF p = <<>> THEN q # <<>>
    ELSE IF q = <<>> THEN FALSE
    ELSE IF Head(p) # Head(q) THEN StrLess(Head(p), Head(q))
    ELSE PathLess(Tail(p), Tail(q))

\* sorted(root.rglob('*.md'))
RECURSIVE sorted(_)
sorted(paths) ==
    IF paths = {} THEN <<>>
    ELSE LET first == CHOOSE p \in paths :
                          \A q \in paths \ {p} : PathLess(p, q)
         IN  <<first>> \o sorted(paths \ {first})

\* the value of a str of digits
RECURSIVE DecimalValue(_)
DecimalValue(s) ==
    IF s = <<>> THEN 0
    ELSE 10 * DecimalValue(SubSeq(s, 1, Len(s) - 1)) + (s[Len(s)] - 48)

\* int(str) on two or four characters of a file name: digits after an
\* optional sign, ValueError otherwise
int(s) ==
    LET signed == s # <<>> /\ Head(s) \in {43, 45}
        body == IF signed THEN Tail(s) ELSE s
    IN  IF body = <<>> \/ \E i \in 1..Len(body) : ~IsDigitChar(body[i])
        THEN [raised |-> TRUE, value |-> 0]
        ELSE [raised |-> FALSE,
              value |-> IF signed /\ Head(s) = 45
                        THEN 0 - DecimalValue(body)
                        ELSE DecimalValue(body)]

DaysInMonth(year, month) ==
    IF month = 2
    THEN IF year % 4 = 0 /\ (year % 100 # 0 \/ year % 400 = 0)
         THEN 29 ELSE 28
    ELSE IF month \in {4, 6, 9, 11} THEN 30 ELSE 31

\* datetime.date(year, month, day) raises ValueError out of range
IsDate(year, month, day) ==
    /\ year \in 1..9999
    /\ month \in 1..12
    /\ day \in 1..DaysInMonth(year, month)

\* list(dict.fromkeys(ids)): the first occurrence of each id, in order
RECURSIVE fromkeys(_)
fromkeys(ids) ==
    IF ids = <<>> THEN <<>>
    ELSE LET front == SubSeq(ids, 1, Len(ids) - 1)
             last == ids[Len(ids)]
         IN  IF \E i \in 1..Len(front) : front[i] = last
             THEN fromkeys(front)
             ELSE Append(fromkeys(front), last)

\* day(path) of Day.create: the Day of the date in the name of the file,
\* with the ids ID_PATTERN finds in it
day(files, path) ==
    LET name == path[Len(path)]
        yyyy == int(SubSeq(name, 1, 4))
        mm == int(SubSeq(name, 5, 6))
        dd == int(SubSeq(name, 7, 8))
    IN  IF \/ yyyy.raised \/ mm.raised \/ dd.raised
           \/ ~IsDate(yyyy.value, mm.value, dd.value)
        THEN [raised |-> TRUE]
        ELSE [raised |-> FALSE,
              date |-> [year |-> yyyy.value, month |-> mm.value,
                        day |-> dd.value],
              ids |-> fromkeys(files[path]),
              previous |-> <<>>,
              next |-> <<>>]

\* dict[key] = value
Put(dict, key, value) ==
    [k \in DOMAIN dict \cup {key} |-> IF k = key THEN value ELSE dict[k]]

\* threads[thread_id]: the days appended to the thread, as places in the list
RECURSIVE thread_days(_, _, _)
thread_days(day_list, thread_id, upto) ==
    IF upto = 0 THEN <<>>
    ELSE LET before == thread_days(day_list, thread_id, upto - 1)
             ids == day_list[upto].ids
         IN  IF thread_id = "" \/ \E i \in 1..Len(ids) : ids[i] = thread_id
             THEN Append(before, upto)
             ELSE before

\* itertools.pairwise
pairwise(s) == [i \in 1..(Len(s) - 1) |-> <<s[i], s[i + 1]>>]

\* for prv, nxt in pairwise(thread_days): the two assignments of each pass
RECURSIVE link(_, _, _)
link(day_list, pairs, thread_id) ==
    IF pairs = <<>> THEN day_list
    ELSE LET prv == Head(pairs)[1]
             nxt == Head(pairs)[2]
             first == [day_list EXCEPT
                          ![prv].next = Put(@, thread_id, nxt)]
             second == [first EXCEPT
                          ![nxt].previous = Put(@, thread_id, prv)]
         IN  link(second, Tail(pairs), thread_id)

\* for thread_id, thread_days in threads.items()
RECURSIVE link_threads(_, _)
link_threads(day_list, thread_ids) ==
    IF thread_ids = {} THEN day_list
    ELSE LET thread_id == CHOOSE t \in thread_ids : TRUE
             linked == link(day_list,
                            pairwise(thread_days(day_list, thread_id,
                                                 Len(day_list))),
                            thread_id)
         IN  link_threads(linked, thread_ids \ {thread_id})

\* the keys of threads: "" and every id of a day
thread_keys(day_list) ==
    {""} \cup UNION {{day_list[i].ids[j] : j \in 1..Len(day_list[i].ids)} :
                        i \in 1..Len(day_list)}

\* Day.create(root)
Day_create(files) ==
    LET matching == SelectSeq(sorted(DOMAIN files), pattern_matches)
        made == [i \in 1..Len(matching) |-> day(files, matching[i])]
    IN  IF \E i \in 1..Len(made) : made[i].raised
        THEN [outcome |-> "ValueError", list |-> <<>>]
        ELSE [outcome |-> "returned",
              list |-> link_threads(made, thread_keys(made))]

\* the day files a logbook of the model may hold, two layouts per date
DayPaths ==
    {CanonicalPath(when) : when \in Dates}
        \cup {DashedPath(when) : when \in Dates}

\* what ID_PATTERN.findall may return for one file
IdLists == {<<>>, <<"thread">>, <<"thread", "lorem", "thread">>}

\* the other *.md files: the index, and a file the pattern matches whose
\* name does not start with a date
OtherPaths == {IndexPath, FlatPath(DateOf(1))}

InitDays ==
    /\ entry = "Days"
    /\ pc = "days"
    /\ NoFiles
    /\ NoComposite /\ NoFactory /\ NoVideo /\ NoFrameSpec
    /\ NoRestExcept("Days")
    /\ \E present \in SUBSET DayPaths, others \in SUBSET OtherPaths :
          \E found \in [present -> IdLists] :
             notes = [p \in present \cup others |->
                         IF p \in present THEN found[p] ELSE <<>>]
    /\ days = NotCreated

\* Day.create(root)
DayCreate ==
    /\ entry = "Days" /\ days.outcome = "none"
    /\ days' = Day_create(notes)
    /\ RestUnchangedExcept("Days")
    /\ UNCHANGED <<notes, renamerVars, mainVars, metadataVars, factoryVars,
                   videoVars, frameSpecVars>>

NextDays == DayCreate

SpecDays == InitDays /\ [][NextDays]_vars

-----------------------------------------------------------------------------
(* Logbook.parse: validation, the time entities, their parsing and saving *)

\* Year.path: root / yyyy / yyyy.md
YearPath(year) == <<Digits4(year), Digits4(year) \o Md>>

\* Month.path: root / yyyy / mm / yyyymm.md
MonthPath(year, month) ==
    <<Digits4(year), Digits2(month),
      Digits4(year) \o Digits2(month) \o Md>>

\* ParseResult.valid
valid(result) == result = <<>>

\* ParseResult.add_error
add_error(result, where, message) ==
    Append(result, [path |-> where, message |-> message])

\* a day file whose content Day.Parser accepts; the text of its headers
\* and of its footer is the text of their templates
ValidDay ==
    [utf8 |-> TRUE, inline_links |-> FALSE, repeated_ids |-> FALSE,
     levels |-> <<1, 2>>, h1_first |-> TRUE, footers |-> 1,
     footer_last |-> TRUE]

\* the contents a day file of the model may have
DayContents ==
    {ValidDay,
     [ValidDay EXCEPT !.utf8 = FALSE],
     [ValidDay EXCEPT !.inline_links = TRUE, !.repeated_ids = TRUE,
                      !.levels = <<1, 3>>, !.footers = 0],
     [ValidDay EXCEPT !.levels = <<2, 1, 1>>, !.h1_first = FALSE,
                      !.footer_last = FALSE]}

\* the check of the header levels in Day.Parser.__parse_headers
RECURSIVE levels_in_order(_, _)
levels_in_order(levels, largest) ==
    IF levels = <<>> THEN TRUE
    ELSE IF largest = Head(levels) - 1 \/ largest >= Head(levels)
         THEN levels_in_order(Tail(levels), Head(levels))
         ELSE FALSE

\* DayHeader.Parser.parse of each header, in order
RECURSIVE parse_headers(_, _, _, _)
parse_headers(result, where, levels, content) ==
    IF levels = <<>> THEN result
    ELSE parse_headers(
            IF Head(levels) = 1 /\ ~content.h1_first
            THEN add_error(result, where, "H1 header is not first element")
            ELSE result,
            where, Tail(levels), content)

\* Day.Parser.parse of an existing day file
Day_parse(where, content) ==
    IF ~content.utf8
    THEN add_error(<<>>, where, "Markdown file encoding is not UTF-8")
    ELSE LET h1s == SelectSeq(content.levels, LAMBDA l : l = 1)
             links == IF content.inline_links
                      THEN add_error(<<>>, where,
                                     "Markdown file contains inline links")
                      ELSE <<>>
             ids == IF content.repeated_ids
                    THEN add_error(links, where, "Repeated id")
                    ELSE links
             h1 == IF h1s = <<>>
                   THEN add_error(ids, where, "Missing H1 header")
                   ELSE IF Len(h1s) > 1
                   THEN add_error(ids, where, "Multiple H1 headers")
                   ELSE ids
             order == IF valid(h1) /\ ~levels_in_order(content.levels, 0)
                      THEN add_error(h1, where, "Header order problem")
                      ELSE h1
             headers == parse_headers(order, where, content.levels, content)
         IN  IF content.footers = 0
             THEN add_error(headers, where, "Missing footer")
             ELSE IF content.footers > 1
             THEN add_error(headers, where, "Multiple footers")
             ELSE IF ~content.footer_last
             THEN add_error(headers, where, "Footer is not last element")
             ELSE headers

\* the directories of the root other than those of the years
\* ".git", ".hg" and an empty directory "drafts"
GitDir == <<46, 103, 105, 116>>
HgDir == <<46, 104, 103>>
EmptyDir == <<100, 114, 97, 102, 116, 115>>

\* list.remove at a place of the list
RemoveAt(s, i) == SubSeq(s, 1, i - 1) \o SubSeq(s, i + 1, Len(s))

\* for d in dirs of __validate_constraints on the directories of the root:
\* dirs.remove(d) while the loop runs moves the next entry under the cursor
RECURSIVE walk_dirs(_, _, _)
walk_dirs(result, dirs, i) ==
    IF i > Len(dirs) THEN result
    ELSE IF dirs[i] \in {GitDir, HgDir}
         THEN walk_dirs(result, RemoveAt(dirs, i), i + 1)
         ELSE IF dirs[i] = EmptyDir
              THEN walk_dirs(add_error(result, <<dirs[i]>>, "Empty directory"),
                             dirs, i + 1)
              ELSE walk_dirs(result, dirs, i + 1)

\* Logbook.Parser.__validate_constraints
validate_constraints(logbook) ==
    walk_dirs(IF logbook.style_css THEN <<>>
              ELSE add_error(<<>>, <<>>, "Missing style.css"),
              logbook.listing, 1)

\* the *.md files Day.create finds under the root
md_files(logbook, disk) ==
    [p \in {CanonicalPath(when) : when \in DOMAIN logbook.contents}
             \cup (IF logbook.stray THEN {FlatPath(DateOf(1))} ELSE {})
             \cup DOMAIN disk
       |-> <<>>]

\* the keys of a dict in the order of their first insertion
RECURSIVE first_keys(_)
first_keys(keys) ==
    IF keys = <<>> THEN <<>>
    ELSE LET front == SubSeq(keys, 1, Len(keys) - 1)
             last == keys[Len(keys)]
         IN  IF \E i \in 1..Len(front) : front[i] = last
             THEN first_keys(front)
             ELSE Append(first_keys(front), last)

\* sorted() of years or of (year, month) pairs
RECURSIVE sorted_keys(_)
sorted_keys(keys) ==
    IF keys = {} THEN <<>>
    ELSE LET least == CHOOSE k \in keys :
                          \A other \in keys \ {k} :
                             \/ k[1] < other[1]
                             \/ k[1] = other[1] /\ k[2] < other[2]
         IN  <<least>> \o sorted_keys(keys \ {least})

\* Month.create(days): the months, as (year, month)
Month_create(day_list) ==
    LET keys == first_keys([i \in 1..Len(day_list) |->
                               <<day_list[i].date.year,
                                 day_list[i].date.month>>])
    IN  sorted_keys({keys[i] : i \in 1..Len(keys)})

\* Year.create(days): the years, as (year, 0)
Year_create(day_list) ==
    LET keys == first_keys([i \in 1..Len(day_list) |->
                               <<day_list[i].date.year, 0>>])
    IN  sorted_keys({keys[i] : i \in 1..Len(keys)})

\* Year.Parser.parse: the months add nothing, then every day of the year
RECURSIVE Year_parse(_, _, _, _)
Year_parse(result, logbook, day_list, year) ==
    IF day_list = <<>> THEN result
    ELSE Year_parse(
            IF Head(day_list).date.year = year
            THEN result \o Day_parse(CanonicalPath(Head(day_list).date),
                                     logbook.contents[Head(day_list).date])
            ELSE result,
            logbook, Tail(day_list), year)

\* Logbook.Parser.__parse_dependencies
RECURSIVE parse_dependencies(_, _, _, _)
parse_dependencies(result, logbook, day_list, years) ==
    IF years = <<>> THEN result
    ELSE parse_dependencies(
            Year_parse(result, logbook, day_list, Head(years)[1]),
            logbook, day_list, Tail(years))

\* y.save() and m.save() for every month of the year
RECURSIVE save_years(_, _)
save_years(years, months) ==
    IF years = <<>> THEN <<>>
    ELSE LET year == Head(years)[1]
             of_year == SelectSeq(months, LAMBDA m : m[1] = year)
         IN  <<YearPath(year)>>
                \o [i \in 1..Len(of_year) |->
                       MonthPath(of_year[i][1], of_year[i][2])]
                \o save_years(Tail(years), months)

\* Logbook.Parser.__save_time_entities without its condition: the paths
\* saved, in order, whatever the result
save_time_entities_always(result, years, months) ==
    <<IndexPath>> \o save_years(years, months)

\* Logbook.Parser.__save_time_entities: the paths saved, in order
save_time_entities(result, years, months) ==
    IF valid(result)
    THEN <<IndexPath>> \o save_years(years, months)
    ELSE <<>>

\* Parsable.save of each path: write_text(template)
RECURSIVE write_all(_, _)
write_all(disk, paths) ==
    IF paths = <<>> THEN disk
    ELSE write_all(Put(disk, Head(paths), "generated"), Tail(paths))

\* Logbook.Parser.parse
Logbook_parse(logbook, disk) ==
    LET constraints == validate_constraints(logbook)
        made == Day_create(md_files(logbook, disk))
        months == Month_create(made.list)
        years == Year_create(made.list)
        result == parse_dependencies(constraints, logbook, made.list, years)
        saved == save_time_entities(result, years, months)
    IN  IF made.outcome = "ValueError"
        THEN [parsed |-> [outcome |-> "ValueError", errors |-> <<>>,
                          saved |-> <<>>],
              disk |-> disk]
        ELSE [parsed |-> [outcome |-> "returned", errors |-> result,
                          saved |-> saved],
              disk |-> write_all(disk, saved)]

\* the summaries a parse of a logbook with these day files writes
SummaryPaths(when_set) ==
    {IndexPath} \cup {YearPath(when.year) : when \in when_set}
        \cup {MonthPath(when.year, when.month) : when \in when_set}

\* the orders in which os.walk may list these directories
Listings(dirs) ==
    {s \in [1..Cardinality(dirs) -> dirs] :
        \A i, j \in 1..Cardinality(dirs) : i # j => s[i] # s[j]}

InitLogbook ==
    /\ entry = "Logbook"
    /\ pc = "logbook"
    /\ NoFiles
    /\ NoComposite /\ NoFactory /\ NoVideo /\ NoFrameSpec
    /\ NoRestExcept("Logbook")
    /\ \E having \in SUBSET Dates, extra \in SUBSET {GitDir, EmptyDir},
          css \in BOOLEAN, flat \in BOOLEAN, kept \in BOOLEAN :
          \E content \in [having -> DayContents],
             listing \in Listings({Digits4(when.year) : when \in having}
                                     \cup extra) :
             /\ summaries = IF kept
                            THEN [p \in SummaryPaths(having) |-> "old"]
                            ELSE <<>>
             /\ book = [style_css |-> css, listing |-> listing,
                        contents |-> content, stray |-> flat,
                        summaries |-> summaries]
    /\ parsed = NotParsed

\* logbook.parse()
LogbookParse ==
    /\ entry = "Logbook" /\ parsed.outcome = "none"
    /\ LET done == Logbook_parse(book, summaries)
       IN  /\ parsed' = done.parsed
           /\ summaries' = done.disk
    /\ RestUnchangedExcept("Logbook")
    /\ UNCHANGED <<book, renamerVars, mainVars, metadataVars, factoryVars,
                   videoVars, frameSpecVars>>

NextLogbook == LogbookParse

SpecLogbook == InitLogbook /\ [][NextLogbook]_vars

-----------------------------------------------------------------------------
(* Properties of the FileRenamer *)

\* the i-th call of the history
IsCall(i, op) == i \in 1..Len(hist) /\ hist[i].op = op /\ ~hist[i].raised

\* C1: round trip. Whenever write_checksum was called on a file whose name
\* has no checksum and delete_checksum was then called on its result, the
\* file is back under exactly the name it had before the write.
RoundTrip ==
    \A i \in 1..Len(hist) :
        (/\ IsCall(i, "write") /\ IsCall(i + 1, "delete")
         /\ ~has_checksum(hist[i].arg.path))
        => /\ hist[i + 1].ret.path = hist[i].arg.path
           /\ hist[i + 1].after = hist[i].before

\* C1 restricted to names without a line break
RoundTripOneLine ==
    \A i \in 1..Len(hist) :
        (/\ IsCall(i, "write") /\ IsCall(i + 1, "delete")
         /\ ~has_checksum(hist[i].arg.path)
         /\ \A k \in 1..Len(hist[i].arg.path) : hist[i].arg.path[k] # "\n")
        => /\ hist[i + 1].ret.path = hist[i].arg.path
           /\ hist[i + 1].after = hist[i].before

\* C2: lock is a no-op on a locked file. write_checksum on a name that has
\* a checksum renames nothing and returns its argument, whatever the value;
\* hence a second write_checksum after a first one returns the same path.
LockIdempotent ==
    \A i \in 1..Len(hist) :
        /\ (IsCall(i, "write") /\ has_checksum(hist[i].arg.path))
           => /\ hist[i].ret = hist[i].arg
              /\ ~hist[i].renamed
              /\ hist[i].after = hist[i].before
        /\ (IsCall(i, "write") /\ IsCall(i + 1, "write"))
           => /\ hist[i + 1].ret.path = hist[i].ret.path
              /\ ~hist[i + 1].renamed

\* the first half of C2 alone
LockedWriteIsNoOp ==
    \A i \in 1..Len(hist) :
        (IsCall(i, "write") /\ has_checksum(hist[i].arg.path))
        => /\ hist[i].ret = hist[i].arg
           /\ ~hist[i].renamed
           /\ hist[i].after = hist[i].before

\* A checksum-shaped segment starts at the dot at position p: Length
\* characters of the alphabet in either case, then a dot or the end.
ShapeAt(name, p) ==
    /\ p + Length <= Len(name)
    /\ name[p] = "."
    /\ \A i \in (p + 1)..(p + Length) :
          \E d \in 1..Len(Digits) :
             name[i] = Digits[d] \/ (d > 10 /\ name[i] = Uppers[d - 10])
    /\ (p + Length = Len(name) \/ name[p + Length + 1] = ".")

ShapePositions(name) == {p \in 1..Len(name) : ShapeAt(name, p)}

Rightmost(name) ==
    CHOOSE p \in ShapePositions(name) : \A q \in ShapePositions(name) : q <= p

SegmentAt(name, p) == SubSeq(name, p + 1, p + Length)

WithoutSegment(name, p) ==
    SubSeq(name, 1, p - 1) \o SubSeq(name, p + Length + 1, Len(name))

\* C3 as stated: unlock is idempotent for all file names. A second
\* delete_checksum returns the path the first one returned.
UnlockIdempotent ==
    \A i \in 1..Len(hist) :
        (IsCall(i, "delete") /\ IsCall(i + 1, "delete"))
        => /\ hist[i + 1].ret.path = hist[i].ret.path
           /\ ~hist[i + 1].renamed

\* C3 as amended: unlock is idempotent for every file name with at most one
\* checksum-shaped segment. With more segments each unlock strips one.
UnlockIdempotentOneSegment ==
    \A i \in 1..Len(hist) :
        (/\ IsCall(i, "delete") /\ IsCall(i + 1, "delete")
         /\ Cardinality(ShapePositions(hist[i].arg.path)) <= 1)
        => /\ hist[i + 1].ret.path = hist[i].ret.path
           /\ ~hist[i + 1].renamed

\* a file with one segment was unlocked by a rename and unlocked again
UnlockedTwice ==
    \E i \in 1..Len(hist) :
        /\ IsCall(i, "delete") /\ IsCall(i + 1, "delete")
        /\ Cardinality(ShapePositions(hist[i].arg.path)) = 1
        /\ hist[i].renamed

\* C4: with several checksum-shaped segments in a name, checksum(path)
\* returns the rightmost one and delete_checksum removes the rightmost one.
RightmostSegment ==
    \A i \in 1..Len(hist) :
        LET name == hist[i].arg.path IN
        /\ (IsCall(i, "checksum") /\ Cardinality(ShapePositions(name)) > 1)
           => hist[i].ret.value = Lower(SegmentAt(name, Rightmost(name)))
        /\ (/\ IsCall(i, "delete") /\ hist[i].renamed
            /\ Cardinality(ShapePositions(name)) > 1)
           => hist[i].ret.path = WithoutSegment(name, Rightmost(name))

\* a dot, then exactly Length characters of the alphabet as the stem, then
\* the end of the name or an extension
AccidentalStem(name) ==
    /\ Len(name) > Length
    /\ name[1] = "."
    /\ \A k \in 2..(Length + 1) : RegexValidChar(name[k])
    /\ Len(name) > Length + 1 =>
          /\ name[Length + 2] = "."
          /\ Len(name) > Length + 2

\* a dot and a stem of alphabet characters of another length, as .dat
OtherLengthStem(name) ==
    /\ Len(name) > 1
    /\ Len(name) # Length + 1
    /\ name[1] = "."
    /\ \A k \in 2..Len(name) : RegexValidChar(name[k])

\* C12: a name whose stem is exactly Length alphabet characters is treated
\* as locked, alone (.factorization) or followed by an extension:
\* has_checksum is true, checksum() returns that stem, and write_checksum
\* returns its argument and renames nothing. A stem of another length, as
\* .dat, is unlocked.
AccidentalStemIsLocked ==
    /\ \A i \in 1..Len(hist) :
          LET name == hist[i].arg.path IN
          /\ AccidentalStem(name) =>
                /\ has_checksum(name)
                /\ hist[i].op = "checksum" =>
                      /\ ~hist[i].raised
                      /\ hist[i].ret.value = Lower(SubSeq(name, 2, Length + 1))
                /\ hist[i].op = "write" =>
                      /\ ~hist[i].raised
                      /\ hist[i].ret = hist[i].arg
                      /\ hist[i].count = 0
          /\ OtherLengthStem(name) => ~has_checksum(name)

\* C12 restricted to names without a line break
AccidentalStemIsLockedOneLine ==
    \A i \in 1..Len(hist) :
        LET name == hist[i].arg.path IN
        /\ (AccidentalStem(name) /\ \A k \in 1..Len(name) : name[k] # "\n")
           => /\ has_checksum(name)
              /\ hist[i].op = "checksum" =>
                    /\ ~hist[i].raised
                    /\ hist[i].ret.value = Lower(SubSeq(name, 2, Length + 1))
              /\ hist[i].op = "write" =>
                    /\ ~hist[i].raised
                    /\ hist[i].ret = hist[i].arg
                    /\ hist[i].count = 0
        /\ OtherLengthStem(name) => ~has_checksum(name)

\* C13: checksum(path) raises exactly when has_checksum(path) is false and
\* returns a Checksum for the same path, with the embedded value in lower
\* case, when it is true; in neither case is a file renamed.
ChecksumRaisesIffUnlocked ==
    \A i \in 1..Len(hist) :
        LET name == hist[i].arg.path IN
        hist[i].op = "checksum" =>
            /\ hist[i].raised <=> ~has_checksum(name)
            /\ ~hist[i].raised =>
                  /\ hist[i].ret.path = name
                  /\ hist[i].ret.value =
                        Lower(SegmentAt(name, MatchPrefixLen(name) + 1))
            /\ hist[i].count = 0
            /\ hist[i].after = hist[i].before

\* checksum() raised for the name a delete_checksum had just unlocked
ChecksumAfterUnlock ==
    \E i \in 1..Len(hist) :
        /\ IsCall(i, "delete") /\ hist[i].renamed
        /\ i < Len(hist)
        /\ hist[i + 1].op = "checksum" /\ hist[i + 1].raised

\* C14: delete_checksum on a file that is not locked does nothing: no
\* rename, the directory unchanged, the argument returned, with or without
\* an extension.
DeleteUnlockedIsNoOp ==
    \A i \in 1..Len(hist) :
        (hist[i].op = "delete" /\ ~has_checksum(hist[i].arg.path))
        => /\ ~hist[i].raised
           /\ hist[i].ret = hist[i].arg
           /\ hist[i].count = 0
           /\ hist[i].after = hist[i].before

\* delete_checksum was called on an unlocked name with an extension
DeletedUnlocked ==
    \E i \in 1..Len(hist) :
        /\ hist[i].op = "delete"
        /\ ~has_checksum(hist[i].arg.path)
        /\ HasSuffix(hist[i].arg.path)

\* C15: write_checksum on an unlocked file renames it with exactly one
\* rename to <stem>.<checksum><extension>; afterwards one file stands where
\* the old one stood, has_checksum of the new path is true and checksum of
\* the new path is the value written.
WriteEmbedsChecksum ==
    \A i \in 1..Len(hist) :
        LET c == hist[i].arg IN
        (hist[i].op = "write" /\ ~has_checksum(c.path))
        => /\ ~hist[i].raised
           /\ hist[i].count = 1
           /\ hist[i].ret =
                 Checksum(Stem(c.path) \o Dot \o c.value \o Suffix(c.path),
                          c.value)
           /\ hist[i].after = (hist[i].before \ {c.path}) \cup {hist[i].ret.path}
           /\ Cardinality(hist[i].after) = Cardinality(hist[i].before)
           /\ has_checksum(hist[i].ret.path)
           /\ checksum(hist[i].ret.path).ret.value = c.value

\* C15 restricted to names without a line break
WriteEmbedsChecksumOneLine ==
    \A i \in 1..Len(hist) :
        LET c == hist[i].arg IN
        (/\ hist[i].op = "write" /\ ~has_checksum(c.path)
         /\ \A k \in 1..Len(c.path) : c.path[k] # "\n")
        => /\ ~hist[i].raised
           /\ hist[i].count = 1
           /\ hist[i].ret =
                 Checksum(Stem(c.path) \o Dot \o c.value \o Suffix(c.path),
                          c.value)
           /\ hist[i].after = (hist[i].before \ {c.path}) \cup {hist[i].ret.path}
           /\ Cardinality(hist[i].after) = Cardinality(hist[i].before)
           /\ has_checksum(hist[i].ret.path)
           /\ checksum(hist[i].ret.path).ret.value = c.value

-----------------------------------------------------------------------------
(* Properties of the commands *)

Occurrences(seq, x) == Cardinality({i \in 1..Len(seq) : seq[i] = x})

Notified(method) ==
    Cardinality({i \in 1..Len(presenter) : presenter[i].method = method})

\* the bucket of a file by the rule of the four commands
BucketOf(f) ==
    IF has_checksum(f)
    THEN IF request.delete THEN "Delete" ELSE "Check"
    ELSE IF request.write THEN "Write" ELSE "Compute"

\* C5: the commands made by CommandFactory.create partition the input
\* files. Each file is in the bucket its lock state and the flags give it,
\* as often as it was given, and in no other bucket; no bucket holds a file
\* that was not given.
BucketsPartition ==
    (entry = "Main" /\ pc # "create") =>
        /\ Len(commands) = 4
        /\ \A k \in 1..Len(commands) :
              /\ commands[k].kind = Kinds[k]
              /\ Range(commands[k].files) \subseteq Range(request.files)
              /\ \A f \in Range(request.files) :
                    Occurrences(commands[k].files, f) =
                        IF commands[k].kind = BucketOf(f)
                        THEN Occurrences(request.files, f)
                        ELSE 0

\* the factory has split a request with locked and unlocked files
BucketsMade ==
    /\ entry = "Main" /\ pc # "create"
    /\ \E f, g \in Range(request.files) : has_checksum(f) /\ ~has_checksum(g)
    /\ request.write /\ ~request.delete

\* the log entries of the checksums one kind of command processed
ProcessedBy(kind) ==
    {i \in 1..Len(log) : log[i].kind = kind /\ ~log[i].raised}

\* C6: CheckCommand notifies exactly one outcome per checksum: ok when the
\* name is locked and the embedded value is the computed one, fail when it
\* is locked and they differ, show when it is not locked, and then
\* repository.checksum is not called.
CheckOutcome ==
    /\ Len(presenter) = Len(log)
    /\ \A i \in ProcessedBy("Check") :
          LET c == log[i].checksum IN
          /\ log[i].after = log[i].before
          /\ IF has_checksum(c.path)
             THEN presenter[i] =
                     Call(IF checksum(c.path).ret.value = c.value
                          THEN "ok" ELSE "fail", c)
             ELSE /\ presenter[i] = Call("show", c)
                  /\ \A j \in 1..Len(log[i].repo) :
                        log[i].repo[j] # "checksum"

\* one CheckCommand has notified ok, fail and show
CheckedAllOutcomes ==
    \E i, j, k \in ProcessedBy("Check") :
        /\ presenter[i].method = "ok"
        /\ presenter[j].method = "fail"
        /\ presenter[k].method = "show"

\* C7: DeleteCommand verifies before it deletes. A locked file is renamed,
\* and deleted notified, only if the computed checksum is the embedded one;
\* the rename strips the checksum segment. On a mismatch the presenter
\* receives fail and the file keeps its name.
DeleteVerifies ==
    \A i \in ProcessedBy("Delete") :
        LET c == log[i].checksum
            embedded == checksum(c.path).ret.value
        IN has_checksum(c.path) =>
           /\ (log[i].after # log[i].before
                  \/ presenter[i].method = "deleted")
              => c.value = embedded
           /\ log[i].after # log[i].before
              => /\ presenter[i].method = "deleted"
                 /\ presenter[i].checksum.value = c.value
                 /\ c.path \notin DOMAIN log[i].after
                 /\ presenter[i].checksum.path \in DOMAIN log[i].after
                 /\ \E p \in ShapePositions(c.path) :
                       /\ Lower(SegmentAt(c.path, p)) = embedded
                       /\ presenter[i].checksum.path =
                             WithoutSegment(c.path, p)
           /\ c.value # embedded
              => /\ presenter[i] = Call("fail", c)
                 /\ log[i].after = log[i].before

\* one DeleteCommand has renamed a file and refused another
DeletedAndRefused ==
    \E i, j \in ProcessedBy("Delete") :
        /\ log[i].after # log[i].before
        /\ presenter[i].method = "deleted"
        /\ has_checksum(log[j].checksum.path)
        /\ presenter[j].method = "fail"

\* C8: WriteCommand renames a file that is still there under its unlocked
\* name to embed the checksum and notifies added with the new path; when
\* the name is locked, or the file is no longer there under its unlocked
\* name, it renames nothing and notifies show.
WriteOutcome ==
    \A i \in ProcessedBy("Write") :
        LET c == log[i].checksum
            new_path == Stem(c.path) \o Dot \o c.value \o Suffix(c.path)
        IN IF ~has_checksum(c.path) /\ c.path \in DOMAIN log[i].before
           THEN /\ presenter[i] = Call("added", Checksum(new_path, c.value))
                /\ c.path \notin DOMAIN log[i].after
                /\ new_path \in DOMAIN log[i].after
                /\ log[i].after[new_path] = log[i].before[c.path]
                /\ \A n \in DOMAIN log[i].before \ {c.path, new_path} :
                      /\ n \in DOMAIN log[i].after
                      /\ log[i].after[n] = log[i].before[n]
           ELSE /\ presenter[i] = Call("show", c)
                /\ log[i].after = log[i].before

\* one WriteCommand has embedded a checksum and has met a locked name
WroteAndSkipped ==
    \E i, j \in ProcessedBy("Write") :
        /\ presenter[i].method = "added"
        /\ has_checksum(log[j].checksum.path)
        /\ presenter[j].method = "show"

\* C9: a run in which the computed checksum of a locked file differs from
\* the embedded one exits non-zero. For the batch of two locked files that
\* match, one that does not and two unlocked files, without -w, the
\* presenter receives 2 ok, 1 fail and 2 show and Main.run returns 1.
MismatchExitsNonZero ==
    (entry = "Main" /\ pc = "finished") =>
        /\ Notified("fail") > 0 => exitCode = 1
        /\ request = [files |-> Batch5, write |-> FALSE, delete |-> FALSE]
           => /\ Notified("ok") = 2
              /\ Notified("fail") = 1
              /\ Notified("show") = 2
              /\ exitCode = 1

\* what the code does on the batch of C9: the notifications, and exit 0
MismatchBatchNotified ==
    (/\ entry = "Main" /\ pc = "finished"
     /\ request = [files |-> Batch5, write |-> FALSE, delete |-> FALSE])
    => /\ Notified("ok") = 2
       /\ Notified("fail") = 1
       /\ Notified("show") = 2
       /\ exitCode = 0

\* C10: a digest failure for one file does not abort the batch. When a
\* command has returned, every file of its bucket that the digester can read
\* has been processed, and only unreadable files were reported as errors.
DigestFailureIsLocal ==
    pc = "finished" =>
        /\ \A k \in 1..Len(commands) :
              \A f \in Range(commands[k].files) :
                 (f \notin unreadable /\ Occurrences(request.files, f) = 1)
                 => \E i \in ProcessedBy(commands[k].kind) : log[i].file = f
        /\ \A i \in 1..Len(log) :
              (log[i].raised /\ Occurrences(request.files, log[i].file) = 1)
              => log[i].file \in unreadable

KindIndex(kind) == CHOOSE k \in 1..Len(Kinds) : Kinds[k] = kind

\* C11: Main.run runs the four commands Check, Delete, Compute, Write in
\* that order, each to its end whatever the earlier ones returned; a command
\* that catches an exception calls presenter.error once and returns success
\* false; the exit status is 1 if some command returned success false and 0
\* otherwise.
AllCommandsRun ==
    /\ Notified("error") = Cardinality({k \in 1..Len(runs) : ~runs[k]})
    /\ \A i, j \in 1..Len(log) :
          i < j => KindIndex(log[i].kind) <= KindIndex(log[j].kind)
    /\ entry = "Main" =>
          /\ Len(runs) <= Len(Kinds)
          /\ pc # "create" =>
                /\ Len(commands) = Len(Kinds)
                /\ \A k \in 1..Len(Kinds) : commands[k].kind = Kinds[k]
          /\ pc \in {"submit", "iterate"} => current = Len(runs) + 1
          /\ pc # "finished" => exitCode = NoExit
          /\ pc = "finished" =>
                /\ Len(runs) = Len(Kinds)
                /\ exitCode = IF \E k \in 1..Len(runs) : ~runs[k]
                              THEN 1 ELSE 0

\* Main.run has returned 1 after a command failed and a later command
\* processed a file
RanAfterFailure ==
    /\ entry = "Main" /\ pc = "finished" /\ exitCode = 1
    /\ \E i, j \in 1..Len(log) :
          /\ i < j
          /\ log[i].raised
          /\ ~log[j].raised
          /\ KindIndex(log[i].kind) < KindIndex(log[j].kind)

\* the results compute_checksums yielded to command k for file f
YieldedFor(k, f) ==
    {i \in 1..Len(log) :
        log[i].kind = commands[k].kind /\ log[i].file = f /\ ~log[i].raised}

\* C16: whatever the order in which the workers finish, compute_checksums
\* yields exactly one Checksum for each submitted file, with the path of
\* that file and the digest of its content, and then ends; workers rename
\* nothing, every rename is made by the loop of Command.run between yields.
OnePerSubmittedFile ==
    /\ \A k \in 1..Len(runs) :
          \A f \in Range(commands[k].files) :
             (f \notin unreadable /\ Occurrences(commands[k].files, f) = 1)
             => Cardinality(YieldedFor(k, f)) = 1
    /\ \A i \in 1..Len(log) :
          ~log[i].raised =>
             /\ log[i].checksum.path = log[i].file
             /\ log[i].checksum.value = DigestValue(log[i].content)
    /\ Len(renames) =
          Cardinality({i \in 1..Len(log) : log[i].after # log[i].before})

\* C16 for the commands in which no digest raised
OnePerSubmittedFileNoFailure ==
    /\ \A k \in 1..Len(runs) :
          runs[k] =>
             \A f \in Range(commands[k].files) :
                Cardinality(YieldedFor(k, f)) =
                   Occurrences(commands[k].files, f)
    /\ \A i \in 1..Len(log) :
          ~log[i].raised =>
             /\ log[i].checksum.path = log[i].file
             /\ log[i].checksum.value = DigestValue(log[i].content)
    /\ Len(renames) =
          Cardinality({i \in 1..Len(log) : log[i].after # log[i].before})

\* the value compute_digest returns for an empty file
EmptyDigest == Digests[EmptyInput]

\* C17: the digest is a function of the content alone. Two digests of
\* equal content have the same value whatever the paths and however often
\* they are taken; an empty file that can be read always yields the digest
\* of no input and never raises; a digest step changes no file and renames
\* none.
DigestOfContent ==
    /\ \A i, j \in 1..Len(log) :
          (~log[i].raised /\ ~log[j].raised /\ log[i].content = log[j].content)
          => log[i].checksum.value = log[j].checksum.value
    /\ \A i \in 1..Len(futures) :
          LET fut == futures[i] IN
          /\ (fut.state = "done" /\ Size[fut.content] = 0)
             => fut.result = Checksum(fut.file, EmptyDigest)
          /\ fut.state = "raised"
             => fut.content = 0 \/ fut.file \in unreadable

DigestIsPure ==
    [][(\E i \in 1..Len(futures) : Worker(i))
        => (fs' = fs /\ renames' = renames)]_vars

DeterministicDigest == []DigestOfContent /\ DigestIsPure

\* the empty content was digested under two different paths
DigestedEmptyTwice ==
    \E i, j \in 1..Len(log) :
        /\ i < j
        /\ ~log[i].raised /\ ~log[j].raised
        /\ Size[log[i].content] = 0 /\ Size[log[j].content] = 0
        /\ log[i].file # log[j].file

-----------------------------------------------------------------------------
(* Properties of CompositeMetadata *)

\* the add is refused by the rule of the already present type
IsDuplicate(a) ==
    /\ isinstance(a.metadata, MetadataClasses)
    /\ ~a.overwrite
    /\ \E i \in 1..Len(a.before) :
          /\ type(a.before[i].value) = type(a.metadata)
          /\ a.before[i].value # a.metadata

\* C18: an add, without overwrite, of an object whose type is present with
\* another instance fails and leaves the collection as it was; an add of a
\* value that is no Metadata fails and changes nothing.
AddRefusalChangesNothing ==
    /\ \A i \in 1..Len(added) :
          (IsDuplicate(added[i]) \/ added[i].metadata.cls = "str")
          => /\ added[i].raised
             /\ added[i].after = added[i].before
    /\ added # <<>> => aggregate = added[Len(added)].after

\* both refusals happened on a collection that held two objects
RefusedBoth ==
    \E i, j \in 1..Len(added) :
        /\ IsDuplicate(added[i])
        /\ added[j].metadata.cls = "str"
        /\ Len(aggregate) = 2

\* C19: after construction with any arguments and any adds the collection
\* holds at most one instance of each type, and add(m, overwrite=True)
\* succeeds and makes get(type(m)) return m.
OneInstancePerType ==
    /\ \A i, j \in 1..Len(aggregate) :
          i # j => type(aggregate[i].value) # type(aggregate[j].value)
    /\ \A i \in 1..Len(aggregate) :
          aggregate[i].key = type(aggregate[i].value)
    /\ \A i \in 1..Len(added) :
          LET a == added[i] IN
          (a.overwrite /\ isinstance(a.metadata, MetadataClasses))
          => /\ ~a.raised
             /\ get(a.after, type(a.metadata)) = a.metadata

\* an add with overwrite replaced another instance of the type
Replaced ==
    \E i \in 1..Len(added) :
        /\ added[i].overwrite /\ ~added[i].raised
        /\ type(added[i].metadata) \in Keys(added[i].before)
        /\ get(added[i].before, type(added[i].metadata)) # added[i].metadata

\* the objects stored so far, in the order they were stored
Stored ==
    constructed \o
    [i \in 1..Len(SelectSeq(added, LAMBDA a : ~a.raised)) |->
        SelectSeq(added, LAMBDA a : ~a.raised)[i].metadata]

\* the types of a sequence of objects in the order of their first occurrence
RECURSIVE FirstTypes(_)
FirstTypes(ms) ==
    IF ms = <<>> THEN <<>>
    ELSE LET front == FirstTypes(SubSeq(ms, 1, Len(ms) - 1))
             t == type(ms[Len(ms)])
         IN IF t \in Range(front) THEN front ELSE Append(front, t)

\* C20: children lists the held instances in the order in which their
\* types were first inserted; replacing an instance with overwrite keeps
\* the position of its type and every other child.
ChildrenInInsertionOrder ==
    /\ [i \in 1..Len(children(aggregate)) |-> type(children(aggregate)[i])]
          = FirstTypes(Stored)
    /\ \A i \in 1..Len(added) :
          LET a == added[i] IN
          (a.overwrite /\ ~a.raised /\ type(a.metadata) \in Keys(a.before))
          => /\ Len(a.after) = Len(a.before)
             /\ \A k \in 1..Len(a.before) :
                   children(a.after)[k] =
                      IF type(children(a.before)[k]) = type(a.metadata)
                      THEN a.metadata
                      ELSE children(a.before)[k]

\* the first of two children was replaced with overwrite
ReplacedFirstChild ==
    \E i \in 1..Len(added) :
        /\ added[i].overwrite /\ ~added[i].raised
        /\ Len(added[i].before) = 2
        /\ type(added[i].before[1].value) = type(added[i].metadata)
        /\ added[i].before[1].value # added[i].metadata

-----------------------------------------------------------------------------
(* The rename race *)

\* the i-th processed checksum reached the rename of the repository method
\* named, and the file was no longer there under the name it was digested
\* under
RenameFailed(i, method) ==
    /\ ~log[i].raised
    /\ \E j \in 1..Len(log[i].repo) : log[i].repo[j] = method
    /\ log[i].checksum.path \notin DOMAIN log[i].before

\* a command returns success false only when a digest raised
FailsOnlyOnDigest ==
    \A k \in 1..Len(runs) :
        ~runs[k] =>
           \E i \in 1..Len(log) :
              log[i].raised /\ log[i].kind = commands[k].kind

\* C29 as stated: a rename that fails because the file changed between
\* detection and mutation degrades to a show notification in WriteCommand
\* and in DeleteCommand alike, renames nothing, and does not make the
\* command return success false.
RenameRaceShows ==
    /\ \A i \in 1..Len(log) :
          (\/ log[i].kind = "Write" /\ RenameFailed(i, "write_checksum")
           \/ log[i].kind = "Delete" /\ RenameFailed(i, "delete_checksum"))
          => /\ presenter[i] = Call("show", log[i].checksum)
             /\ log[i].after = log[i].before
    /\ FailsOnlyOnDigest

\* C29 as amended: the failed rename degrades to show in WriteCommand and to
\* ok in DeleteCommand, renames nothing, and does not make the command
\* return success false.
RenameRaceDegrades ==
    /\ \A i \in 1..Len(log) :
          /\ (log[i].kind = "Write" /\ RenameFailed(i, "write_checksum"))
             => /\ presenter[i] = Call("show", log[i].checksum)
                /\ log[i].after = log[i].before
          /\ (log[i].kind = "Delete" /\ RenameFailed(i, "delete_checksum"))
             => /\ presenter[i] = Call("ok", log[i].checksum)
                /\ log[i].after = log[i].before
    /\ FailsOnlyOnDigest

\* a DeleteCommand whose rename failed for one file has returned success
RaceInDelete ==
    /\ pc = "finished" /\ runs # <<>>
    /\ \A k \in 1..Len(runs) : runs[k]
    /\ \E i \in 1..Len(log) :
          log[i].kind = "Delete" /\ RenameFailed(i, "delete_checksum")

-----------------------------------------------------------------------------
(* Properties of FileMetadataFactory *)

\* C21: create_metadata returns a bundle that holds a FileMetadata, an
\* ImageFileMetadata iff is_image, an AudioFileMetadata iff is_audio and a
\* VideoFileMetadata iff is_video, each decision taken whatever the other
\* two are and whether or not the file decodes; no type is held twice.
BundleTypes ==
    created = "returned" =>
        /\ "FileMetadata" \in Keys(aggregate)
        /\ \A m \in Media : MediaClass[m] \in Keys(aggregate) <=> subject.is[m]
        /\ \A i, j \in 1..Len(aggregate) :
              i # j => type(aggregate[i].value) # type(aggregate[j].value)
        /\ \A i \in 1..Len(aggregate) :
              aggregate[i].key = type(aggregate[i].value)

\* a bundle was returned for a file typed as image and as video, not as
\* audio, whose video does not decode
TypedTwice ==
    /\ created = "returned"
    /\ subject.is["image"] /\ ~subject.is["audio"] /\ subject.is["video"]
    /\ ~subject.decodes["video"]

\* the medium of the class does not decode
Undecodable(cls) ==
    cls # "FileMetadata" /\ ~subject.decodes[MediumOf(cls)]

\* C22 as stated: when a file typed as image, audio or video fails to
\* decode, that type is omitted from the bundle create_metadata returns,
\* the other types are present, create_metadata does not fail, and no
\* later read of a member raises.
DecodeFailureOmits ==
    /\ created = "raised" => ~subject.readable
    /\ created = "returned" =>
          \A m \in Media :
             MediaClass[m] \in Keys(aggregate)
                <=> (subject.is[m] /\ subject.decodes[m])
    /\ \A i \in 1..Len(accesses) : ~accesses[i].raised

\* C22 as amended: when a file typed as image, audio or video fails to
\* decode, create_metadata does not fail and the bundle holds that type
\* and the other types; every read of a derived attribute of that member
\* raises, and the reads of the other members do not.
DecodeFailureSurfacesOnRead ==
    /\ created = "raised" => ~subject.readable
    /\ created = "returned" =>
          \A m \in Media :
             MediaClass[m] \in Keys(aggregate) <=> subject.is[m]
    /\ \A i \in 1..Len(accesses) :
          accesses[i].raised <=> Undecodable(accesses[i].cls)

\* in one bundle a read of a member that does not decode raised and a read
\* of another media member returned
RaisedAndReturned ==
    \E i, j \in 1..Len(accesses) :
        /\ accesses[i].raised
        /\ ~accesses[j].raised
        /\ accesses[j].cls # "FileMetadata"

\* the reads of the AudioFileMetadata, as indices of accesses
AudioReads == {i \in 1..Len(accesses) : accesses[i].cls = "AudioFileMetadata"}

\* C23 as stated: constructing an AudioFileMetadata calls metrics not at
\* all, the first read of duration or entropy calls it once, and no later
\* read calls it: metrics is called at most once per instance.
AudioMetricsOnce ==
    /\ AudioReads = {} => calls["AudioFileMetadata"] = 0
    /\ \A i \in AudioReads :
          /\ accesses[i].calls_before = 0 => accesses[i].calls_after = 1
          /\ accesses[i].calls_before > 0
                => accesses[i].calls_after = accesses[i].calls_before
    /\ calls["AudioFileMetadata"] <= 1

\* C23 as amended: constructing an AudioFileMetadata calls metrics not at
\* all; a read of duration or entropy calls metrics once unless an earlier
\* read has returned; after the first read that returned no read calls it,
\* so metrics returns at most once per instance, and a call that raised is
\* made again at the next read.
AudioMetricsCachedOnReturn ==
    /\ AudioReads = {} => calls["AudioFileMetadata"] = 0
    /\ \A i \in AudioReads :
          LET returned == \E j \in AudioReads : j < i /\ ~accesses[j].raised
          IN /\ accesses[i].calls_after =
                   accesses[i].calls_before + (IF returned THEN 0 ELSE 1)
             /\ returned => ~accesses[i].raised
    /\ calls["AudioFileMetadata"] =
          Cardinality({i \in AudioReads :
                          \A j \in AudioReads : j < i => accesses[j].raised})

\* duration and entropy were both read, in either order, and again, with
\* one call of metrics
AudioReadThrice ==
    /\ Cardinality(AudioReads) = 3
    /\ \E i, j \in AudioReads : accesses[i].attr # accesses[j].attr
    /\ calls["AudioFileMetadata"] = 1

-----------------------------------------------------------------------------
(* Properties of frame_spec *)

\* C28: for a clip of N >= 1 frames and the default min_sample_size the
\* frame numbers are strictly increasing, all within [2.5% N, 97.5% N],
\* evenly spaced by one step, and at least min_sample_size in number.
FrameNumbersInWindow ==
    derived # <<>> =>
        LET f == derived.frame_numbers
            n == measured.number_of_frames
        IN /\ \A i \in 1..(Len(f) - 1) : f[i] < f[i + 1]
           /\ \A i \in 1..Len(f) :
                 /\ 1000 * f[i] >= StartPerMille * n
                 /\ 1000 * f[i] <= EndPerMille * n
           /\ \A i \in 2..(Len(f) - 1) : f[i + 1] - f[i] = f[2] - f[1]
           /\ Len(f) >= MinSampleSize

\* what holds of the frame numbers for every clip: strictly increasing and
\* evenly spaced from ceil(2.5% N) up to at most ceil(97.5% N), and at
\* least min_sample_size in number once the clip has 3 frames
FrameNumbersInCeiledWindow ==
    derived # <<>> =>
        LET f == derived.frame_numbers
            n == measured.number_of_frames
        IN /\ \A i \in 1..(Len(f) - 1) : f[i] < f[i + 1]
           /\ f # <<>> /\ f[1] = Ceil(StartPerMille * n, 1000)
           /\ f[Len(f)] <= Ceil(EndPerMille * n, 1000)
           /\ \A i \in 2..(Len(f) - 1) : f[i + 1] - f[i] = f[2] - f[1]
           /\ n >= 3 => Len(f) >= MinSampleSize

\* the frame specification of the clip of the tests
TestClipSpec ==
    (/\ derived # <<>>
     /\ measured = [number_of_frames |-> 149, width |-> 190, height |-> 240])
    => /\ derived.size = <<202, 256>>
       /\ derived.frame_numbers = <<4, 20, 36, 52, 68, 84, 100, 116, 132>>

\* C30: the raster size has its longer edge exactly 256 and its shorter
\* edge floor(256 * shorter / longer), for every positive width and height;
\* both edges are 256 for a square clip; no edge is 0 or above 256.
SizeNormalized ==
    derived # <<>> =>
        LET w == measured.width
            h == measured.height
            longer == IF w < h THEN 2 ELSE 1
            shorter == IF w < h THEN 1 ELSE 2
        IN /\ derived.size[longer] = DEFAULT_SIZE
           /\ derived.size[shorter] =
                 IF w < h THEN (DEFAULT_SIZE * w) \div h
                 ELSE (DEFAULT_SIZE * h) \div w
           /\ w = h => derived.size = <<DEFAULT_SIZE, DEFAULT_SIZE>>
           /\ \A k \in 1..2 :
                 derived.size[k] > 0 /\ derived.size[k] <= DEFAULT_SIZE

\* what holds of the size for every clip: the longer edge is 256 and the
\* shorter edge is below or at floor(256 * shorter / longer) by at most 1
SizeWithinOne ==
    derived # <<>> =>
        LET w == measured.width
            h == measured.height
            longer == IF w < h THEN 2 ELSE 1
            shorter == IF w < h THEN 1 ELSE 2
            quotient == IF w < h THEN (DEFAULT_SIZE * w) \div h
                        ELSE (DEFAULT_SIZE * h) \div w
        IN /\ derived.size[longer] = DEFAULT_SIZE
           /\ derived.size[shorter] \in {quotient - 1, quotient}
           /\ derived.size[shorter] >= 0

-----------------------------------------------------------------------------
(* Properties of the video adapters *)

\* the outcomes of a pass with which the opencv adapter raises
Raising == {"open", "seek", "timeout", "strike"}

\* the opencv adapter was called and has raised
PrimaryRaised == reads # <<>> /\ reads[Len(reads)].outcome \in Raising

\* the opencv adapter was called and has returned its frames
PrimaryReturned ==
    /\ reads # <<>>
    /\ reads[Len(reads)].outcome \notin Raising
    /\ progress = Len(clip.frame_numbers)

\* the primary backend runs first, and the fallback only after the primary
\* raised or returned no frame; once the primary has raised the fallback
\* runs; frames never returns without a backend having returned
BackendOrder ==
    /\ fallback # "idle" =>
          \/ PrimaryRaised
          \/ PrimaryReturned /\ captured = <<>>
    /\ (PrimaryReturned /\ captured # <<>>)
          => vpc = "returned" /\ fallback = "idle"
    /\ (PrimaryRaised /\ vpc \in {"returned", "raised"}) => fallback # "idle"
    /\ vpc = "returned" =>
          \/ fallback \in {"returned", "empty"}
          \/ PrimaryReturned /\ captured # <<>>

\* C24 as stated: frames tries the primary backend first and uses the
\* fallback whenever the primary raises, whatever the reason; the caller
\* sees an error only if the fallback also failed; the fallback never runs
\* when the primary returned frames.
FallbackHidesPrimary ==
    /\ BackendOrder
    /\ vpc = "raised" => fallback = "raised"

\* C24 as amended: the same, but the caller also sees an error, with no
\* backend run, when no frame specification was passed and both probers
\* raised while it was derived; and the fallback also runs when the primary
\* returned no frame.
FallbackHidesPrimaryOnly ==
    /\ BackendOrder
    /\ vpc = "raised" =>
          \/ fallback = "raised"
          \/ ~clip.given /\ reads = <<>> /\ fallback = "idle"

\* the primary timed out and the fallback returned the frames
TimedOutThenFallback ==
    /\ vpc = "returned" /\ fallback = "returned"
    /\ reads[Len(reads)].outcome = "timeout"

\* C25: the primary backend skips up to 2 unreadable frames, appending no
\* frame for them, and raises on the 3rd unreadable frame of an extraction.
ThirdMissRaises ==
    /\ Len(missed_frames) <= 2
    /\ \A i \in 1..Len(reads) :
          /\ reads[i].outcome = "missed" => reads[i].missed_before < 2
          /\ reads[i].outcome = "strike" => reads[i].missed_before = 2
    /\ \A i \in 1..Len(captured) :
          \A j \in 1..Len(missed_frames) : captured[i] # missed_frames[j]

\* what the code does: it skips up to 3 unreadable frames and raises on
\* the 4th
FourthMissRaises ==
    /\ Len(missed_frames) <= 3
    /\ \A i \in 1..Len(reads) :
          /\ reads[i].outcome = "missed" => reads[i].missed_before < 3
          /\ reads[i].outcome = "strike" => reads[i].missed_before = 3
    /\ \A i \in 1..Len(captured) :
          \A j \in 1..Len(missed_frames) : captured[i] # missed_frames[j]

\* C26: the primary backend raises for time-out exactly when, at the check
\* after a frame read, more than DEFAULT_TIMEOUT seconds have passed since
\* start and fewer than 3/4 of the frame numbers have been attempted; from
\* 3/4 on it never does, however late it is.
TimeoutOnlyBeforeThreeQuarters ==
    \A i \in 1..Len(reads) :
        LET r == reads[i] IN
        r.outcome \notin {"open", "seek"} =>
            /\ r.outcome = "timeout" <=>
                  (/\ r.elapsed > DEFAULT_TIMEOUT
                   /\ 4 * r.progress < 3 * Len(clip.frame_numbers))
            /\ 4 * r.progress >= 3 * Len(clip.frame_numbers)
                  => r.outcome # "timeout"

\* a frame was read past the budget when 3/4 of the frame numbers had been
\* attempted, after a read exactly at the budget
LateButKept ==
    \E i, j \in 1..Len(reads) :
        /\ i < j
        /\ reads[i].elapsed = DEFAULT_TIMEOUT
        /\ reads[j].elapsed > DEFAULT_TIMEOUT
        /\ reads[j].outcome = "frame"

\* C27: metrics returns the result of the first prober when it returns,
\* calls the second prober only when the first raised, and raises only when
\* both raised, whichever backend served or will serve the frames.
ProberFallback ==
    \A i \in 1..Len(probes) :
        LET p == probes[i] IN
        /\ p.first_ok => p.result.source = "ffmpeg" /\ ~p.result.raised
        /\ p.result.second_called <=> ~p.first_ok
        /\ (~p.first_ok /\ p.second_ok)
              => p.result.source = "opencv" /\ ~p.result.raised
        /\ p.result.raised <=> (~p.first_ok /\ ~p.second_ok)

\* metrics was served by the second prober after frames had been served by
\* the primary backend
SecondProberAfterPrimary ==
    \E i \in 1..Len(probes) :
        /\ probes[i].result.source = "opencv"
        /\ probes[i].during = "returned"
        /\ probes[i].backend = "idle"

-----------------------------------------------------------------------------
(* Properties of the embedded checksum's case *)

\* the last Length characters of a name, after a dot
LastSegment(name) == SubSeq(name, Len(name) - Length + 1, Len(name))

\* the name ends with a dot and Length digits or letters, some in upper case
EndsInUpperCaseSegment(name) ==
    /\ Len(name) > Length + 1
    /\ name[Len(name) - Length] = "."
    /\ \A i \in 1..Length : LowerChar(LastSegment(name)[i]) \in ValidChars
    /\ LastSegment(name) # Lower(LastSegment(name))

\* C31: a file name whose checksum segment has upper-case letters is
\* locked, checksum(path) returns the segment in lower case, and
\* CheckCommand notifies ok for it exactly when the segment in lower case
\* equals the computed checksum, else fail.
UpperCaseSegmentIsChecked ==
    \A i \in 1..Len(log) :
        (/\ log[i].kind = "Check" /\ ~log[i].raised
         /\ EndsInUpperCaseSegment(log[i].file)) =>
            /\ has_checksum(log[i].file)
            /\ ~checksum(log[i].file).raised
            /\ checksum(log[i].file).ret.value
                  = Lower(LastSegment(log[i].file))
            /\ log[i].repo = <<"has_checksum", "checksum">>
            /\ presenter[i].method \in {"ok", "fail"}
            /\ presenter[i].method = "ok" <=>
                  Lower(LastSegment(log[i].file)) = log[i].checksum.value

\* Main put a file with an upper-case segment in the bucket of CheckCommand,
\* which notified ok for it
UpperCaseSegmentOk ==
    /\ entry = "Main"
    /\ \E i \in 1..Len(log) :
          /\ log[i].kind = "Check"
          /\ EndsInUpperCaseSegment(log[i].file)
          /\ presenter[i].method = "ok"

-----------------------------------------------------------------------------
(* Properties of the checksum's encoding *)

\* the value of a digit of base 36
DigitValue(ch) == (CHOOSE i \in 1..Len(Digits) : Digits[i] = ch) - 1

\* num * 36 + carry on the bytes of num; what does not fit is dropped
RECURSIVE TimesBasePlus(_, _)
TimesBasePlus(num, carry) ==
    IF num = <<>> THEN <<>>
    ELSE LET v == num[Len(num)] * 36 + carry
         IN TimesBasePlus(SubSeq(num, 1, Len(num) - 1), v \div 256)
              \o <<v % 256>>

\* the number a string of base-36 digits denotes, on 8 bytes
RECURSIVE FromBase36(_)
FromBase36(s) ==
    IF s = <<>> THEN [i \in 1..QuarterLength |-> 0]
    ELSE TimesBasePlus(FromBase36(SubSeq(s, 1, Len(s) - 1)),
                       DigitValue(s[Len(s)]))

\* C32: the checksum made of any unsigned integer of 64 bits has exactly
\* Length = 13 characters, all of 0-9a-z: base_36 gives at most 13 digits,
\* zfill fills with "0" on the left, the string denotes the number, and
\* embedded in a file name it is recognized by has_checksum.
ChecksumHasLengthAndAlphabet ==
    encoded # <<>> =>
        /\ Len(base_36(decimal_number)) <= Length
        /\ Len(encoded) = Length
        /\ \A i \in 1..Len(encoded) : encoded[i] \in ValidChars
        /\ \A i \in 1..(Length - Len(base_36(decimal_number))) :
              encoded[i] = "0"
        /\ FromBase36(encoded) = decimal_number
        /\ has_checksum(<<"a", ".">> \o encoded)
        /\ has_checksum(<<"a", ".">> \o encoded \o <<".", "t">>)

\* a number of 12 digits was encoded and filled with one "0"
Padded ==
    /\ encoded # <<>>
    /\ ~IsZero(decimal_number)
    /\ encoded[1] = "0" /\ encoded[2] # "0"

-----------------------------------------------------------------------------
(* Properties of delete_checksum's new name *)

\* new is name without one checksum-shaped segment and the dot before it
WithoutOneSegment(name, new) ==
    /\ Len(name) = Len(new) + Length + 1
    /\ \E p \in 0..Len(new) :
          /\ SubSeq(name, 1, p) = SubSeq(new, 1, p)
          /\ name[p + 1] = "."
          /\ \A i \in (p + 2)..(p + 1 + Length) :
                LowerChar(name[i]) \in ValidChars
          /\ SubSeq(name, p + 2 + Length, Len(name))
                = SubSeq(new, p + 1, Len(new))

\* the call did nothing: no rename, the same files, the argument returned
DidNothing(h) ==
    /\ ~h.raised /\ ~h.renamed
    /\ h.after = h.before
    /\ h.ret = h.arg

\* no rename ever gives a file the empty name
NoEmptyName ==
    /\ <<>> \notin DOMAIN fs
    /\ \A i \in 1..Len(renames) : renames[i][2] # <<>>

\* C33: delete_checksum never renames a file to the empty name. On a locked
\* name that is only a dot and a checksum-shaped segment it does nothing;
\* on every other locked name it renames the file to the name without
\* exactly that segment and its dot.
DeleteNeverEmptiesName ==
    /\ NoEmptyName
    /\ \A i \in 1..Len(hist) :
          (hist[i].op = "delete" /\ has_checksum(hist[i].arg.path)) =>
              IF Len(hist[i].arg.path) = Length + 1
              THEN DidNothing(hist[i])
              ELSE /\ ~hist[i].raised /\ hist[i].renamed
                   /\ hist[i].ret.path \in hist[i].after
                   /\ hist[i].arg.path \notin hist[i].after
                   /\ WithoutOneSegment(hist[i].arg.path, hist[i].ret.path)

\* C33 for the locked names whose remainder names a file: the remainder of
\* "..<checksum>" and of ".<checksum>." is ".", the directory itself, and
\* the rename onto it raises
DeleteNeverEmptiesNameOfFile ==
    /\ NoEmptyName
    /\ \A i \in 1..Len(hist) :
          (hist[i].op = "delete" /\ has_checksum(hist[i].arg.path)) =>
              IF Len(hist[i].arg.path) = Length + 1
              THEN DidNothing(hist[i])
              ELSE IF \E d \in {Dot, Dot \o Dot} :
                         WithoutOneSegment(hist[i].arg.path, d)
                   THEN /\ hist[i].raised /\ ~hist[i].renamed
                        /\ hist[i].after = hist[i].before
                   ELSE /\ ~hist[i].raised /\ hist[i].renamed
                        /\ hist[i].ret.path \in hist[i].after
                        /\ hist[i].arg.path \notin hist[i].after
                        /\ WithoutOneSegment(hist[i].arg.path,
                                             hist[i].ret.path)

-----------------------------------------------------------------------------
(* Properties of the deleted notification *)

\* C34: whenever DeleteCommand notifies deleted(c), the file was renamed
\* and c.path is its new name, which is not locked; a delete that renamed
\* nothing never notifies deleted.
DeletedMeansRenamed ==
    \A i \in ProcessedBy("Delete") :
        presenter[i].method = "deleted" =>
            /\ log[i].after # log[i].before
            /\ log[i].checksum.path \notin DOMAIN log[i].after
            /\ presenter[i].checksum.path \in DOMAIN log[i].after
            /\ presenter[i].checksum.path # log[i].checksum.path
            /\ ~has_checksum(presenter[i].checksum.path)

\* what holds of every deleted(c): the file is there under c.path, and it
\* was renamed unless its name is only a dot and its checksum
DeletedNamesTheFile ==
    \A i \in ProcessedBy("Delete") :
        presenter[i].method = "deleted" =>
            /\ presenter[i].checksum.path \in DOMAIN log[i].after
            /\ IF Len(log[i].checksum.path) = Length + 1
               THEN /\ log[i].after = log[i].before
                    /\ presenter[i].checksum = log[i].checksum
               ELSE /\ log[i].after # log[i].before
                    /\ log[i].checksum.path \notin DOMAIN log[i].after

-----------------------------------------------------------------------------
(* Properties of the renames of one run *)

\* C35: in one run of Main, whatever the flags, each input file is renamed
\* at most once: no file is renamed under the same name twice, a file that
\* a command renamed is not renamed again by a later command (unlocked by
\* DeleteCommand, not locked again by WriteCommand, and conversely), and
\* only input files are renamed.
RenamedAtMostOnce ==
    entry = "Main" =>
        /\ \A i \in 1..Len(renames) : renames[i][1] \in Range(request.files)
        /\ \A i, j \in 1..Len(renames) :
              i < j => /\ renames[i][1] # renames[j][1]
                       /\ renames[i][2] # renames[j][1]

\* what holds: no name of the request is the source of two renames
EachNameRenamedOnce ==
    entry = "Main" =>
        /\ \A i \in 1..Len(renames) : renames[i][1] \in Range(request.files)
        /\ \A i, j \in 1..Len(renames) :
              i < j => renames[i][1] # renames[j][1]

-----------------------------------------------------------------------------
(* Properties of the commands that only report *)

\* C36: CheckCommand and ComputeCommand never rename or change a file: the
\* directory (names and contents) is the same after each of their steps as
\* before, whatever they notify; and a run of Main with neither write nor
\* delete set makes no rename and leaves exactly the files of the request.
ReportingCommandsChangeNothing ==
    /\ \A i \in 1..Len(log) :
          log[i].kind \in {"Check", "Compute"} =>
              /\ log[i].after = log[i].before
              /\ presenter[i].method \in {"ok", "fail", "show", "error"}
    /\ (entry = "Main" /\ ~request.write /\ ~request.delete) =>
          /\ renames = <<>>
          /\ DOMAIN fs = Range(request.files)
          /\ \A i \in 1..Len(log) : log[i].kind \in {"Check", "Compute"}

\* a run without flags has finished after CheckCommand notified a fail and
\* ComputeCommand a show
ReportedOnly ==
    /\ entry = "Main" /\ pc = "finished"
    /\ ~request.write /\ ~request.delete
    /\ \E i, j \in 1..Len(log) :
          /\ log[i].kind = "Check" /\ presenter[i].method = "fail"
          /\ log[j].kind = "Compute" /\ presenter[j].method = "show"

-----------------------------------------------------------------------------
(* Properties of FileMetadata.checksum *)

\* C37: the checksum of the FileMetadata made by create_metadata depends
\* only on the bytes of the file: two files of the same bytes scanned by
\* one factory, or one file scanned twice, get the same checksum, whatever
\* the factory scanned before.
ChecksumDependsOnBytesOnly ==
    \A i, j \in 1..Len(scanned) :
        (/\ ~scanned[i].raised /\ ~scanned[j].raised
         /\ scanned[i].bytes = scanned[j].bytes)
            => scanned[i].checksum = scanned[j].checksum

\* what holds: the first FileMetadata of a factory has the checksum of its
\* own bytes, histogram and entropy
FirstChecksumOfBytes ==
    \A i \in 1..Len(scanned) :
        (~scanned[i].raised /\ \A j \in 1..(i - 1) : scanned[j].raised)
            => scanned[i].checksum
                  = hexdigest(histogram(<<>>, scanned[i].bytes))

-----------------------------------------------------------------------------
(* Properties of the two video backends *)

\* C38: for the same FrameSpec the fallback backend returns what the
\* primary would: each of its frames has the normalized size of the
\* FrameSpec and the position of the corresponding frame of the primary.
BackendsAgree ==
    (opencv_frames.ran /\ ffmpeg_frames.ran) =>
        \A i \in 1..Len(ffmpeg_frames.frames) :
            /\ ffmpeg_frames.frames[i].size = handed.size
            /\ ffmpeg_frames.frames[i].size = opencv_frames.frames[i].size
            /\ ffmpeg_frames.frames[i].position
                  = opencv_frames.frames[i].position

\* what holds: the backends agree on the position of the first frame, and
\* the frames of the fallback have the size of the clip
BackendsAgreeOnFirstFrame ==
    (opencv_frames.ran /\ ffmpeg_frames.ran) =>
        \A i \in 1..Len(ffmpeg_frames.frames) :
            /\ ffmpeg_frames.frames[i].size
                  = <<handed.metrics.width, handed.metrics.height>>
            /\ i = 1 => ffmpeg_frames.frames[i].position
                           = opencv_frames.frames[i].position

-----------------------------------------------------------------------------
(* Properties of the threads of Day.create *)

\* datetime.date < datetime.date
DateLess(a, b) ==
    \/ a.year < b.year
    \/ a.year = b.year /\ a.month < b.month
    \/ a.year = b.year /\ a.month = b.month /\ a.day < b.day

ThreadKeys == {"", "thread", "lorem"}

\* the day at place a of the returned list carries the thread
Carries(a, t) ==
    \/ t = ""
    \/ \E j \in 1..Len(days.list[a].ids) : days.list[a].ids[j] = t

\* the day at place b is the first one after the day at place a, by date,
\* among the days carrying the thread
NextInThread(a, b, t) ==
    /\ Carries(b, t)
    /\ DateLess(days.list[a].date, days.list[b].date)
    /\ \A c \in 1..Len(days.list) :
          Carries(c, t) =>
             ~(/\ DateLess(days.list[a].date, days.list[c].date)
               /\ DateLess(days.list[c].date, days.list[b].date))

\* the links of every thread follow the dates of the days carrying it
ThreadsFollowDates ==
    \A t \in ThreadKeys, a \in 1..Len(days.list) :
       LET this == days.list[a]
       IN  /\ ~Carries(a, t) =>
                t \notin DOMAIN this.next /\ t \notin DOMAIN this.previous
           /\ Carries(a, t) =>
                /\ t \in DOMAIN this.next
                     <=> \E b \in 1..Len(days.list) :
                            Carries(b, t)
                               /\ DateLess(this.date, days.list[b].date)
                /\ t \in DOMAIN this.previous
                     <=> \E b \in 1..Len(days.list) :
                            Carries(b, t)
                               /\ DateLess(days.list[b].date, this.date)
                /\ t \in DOMAIN this.next =>
                     /\ NextInThread(a, this.next[t], t)
                     /\ t \in DOMAIN days.list[this.next[t]].previous
                     /\ days.list[this.next[t]].previous[t] = a
                /\ t \in DOMAIN this.previous =>
                     /\ NextInThread(this.previous[t], a, t)
                     /\ t \in DOMAIN days.list[this.previous[t]].next
                     /\ days.list[this.previous[t]].next[t] = a

\* C39: Day.create links the days carrying a thread id, and all days for
\* the empty id, into one doubly linked list in date order: a.next[t] is b
\* iff b.previous[t] is a, b being the next day by date that carries t; the
\* first day of a thread has no previous[t], the last no next[t], a day
\* alone in its thread neither
LinkedInDateOrder ==
    days.outcome = "returned" => ThreadsFollowDates

\* every day file read lies at Day.path: yyyy/mm/dd/yyyymmdd.md
CanonicalLayout ==
    \A p \in DOMAIN notes :
       pattern_matches(p) => \E when \in Dates : p = CanonicalPath(when)

\* in a logbook whose day files all lie at Day.path the threads are linked
\* in date order
LinkedInDateOrderAtDayPath ==
    days.outcome = "returned" /\ CanonicalLayout => ThreadsFollowDates

\* three days at Day.path, the first and the last carrying "thread", the
\* first alone in "lorem": the thread skips the day in between
ThreadSkipsADay ==
    /\ days.outcome = "returned" /\ CanonicalLayout
    /\ Len(days.list) = 3
    /\ days.list[1].ids = <<"thread", "lorem">>
    /\ days.list[2].ids = <<>>
    /\ days.list[1].next = [t \in {"", "thread"} |->
                               IF t = "" THEN 2 ELSE 3]
    /\ days.list[3].previous = [t \in {"", "thread"} |->
                                   IF t = "" THEN 2 ELSE 1]
    /\ days.list[2].next = [t \in {""} |-> 3]

-----------------------------------------------------------------------------
(* Properties of the saving of Logbook.parse *)

\* no summary file was created or written by the call
NothingSaved ==
    /\ parsed.saved = <<>>
    /\ summaries = book.summaries

\* the index and the summary of every year and month holding a day file
\* were written by the call
AllSaved ==
    /\ {parsed.saved[i] : i \in 1..Len(parsed.saved)}
          = SummaryPaths(DOMAIN book.contents)
    /\ DOMAIN summaries = SummaryPaths(DOMAIN book.contents)
    /\ \A p \in DOMAIN summaries : summaries[p] = "generated"

\* the logbook has a fault that the parse reports whatever the listing
HasFault ==
    \/ ~book.style_css
    \/ \E when \in DOMAIN book.contents : book.contents[when] # ValidDay

\* C40: Logbook.parse writes the index and the year and month summaries
\* only when the parse result has no errors: with any error collected
\* (missing style.css, empty directory, an error of a day, header or
\* footer) no summary file is created or overwritten; with none, the index
\* and every year and month summary are saved
SavesOnlyWhenValid ==
    /\ parsed.outcome = "returned" /\ parsed.errors # <<>> => NothingSaved
    /\ parsed.outcome = "returned" /\ parsed.errors = <<>> => AllSaved
    /\ parsed.outcome = "returned" /\ HasFault => parsed.errors # <<>>
    /\ parsed.outcome # "returned" => NothingSaved

\* a logbook with a year and a month summary of an earlier run and one
\* day file without footer was parsed: the error is reported and the
\* summaries are as they were
ErrorsKeepSummaries ==
    /\ parsed.outcome = "returned"
    /\ book.style_css
    /\ \E i \in 1..Len(parsed.errors) :
          parsed.errors[i].message = "Missing footer"
    /\ Cardinality(DOMAIN book.contents) = 2
    /\ \E p \in DOMAIN book.summaries : p # IndexPath
    /\ \A p \in DOMAIN book.summaries : summaries[p] = "old"

\* a logbook of valid day files in two years was parsed without errors:
\* the index, both years and every month were written over the old ones
ValidLogbookSaved ==
    /\ parsed.outcome = "returned" /\ parsed.errors = <<>>
    /\ Cardinality({when.year : when \in DOMAIN book.contents}) = 2
    /\ book.summaries # <<>>
    /\ Len(parsed.saved) = 1 + 2 + Cardinality(DOMAIN book.contents)
    /\ AllSaved

====
